---- MODULE Spec2Model ----
(***************************************************************************)
(* CAMALEON core: the threat-assessment and posture-decision engine        *)
(* (chame_core: adaptive.rs, state.rs, metrics.rs, events.rs, lib.rs) and  *)
(* the handler dispatch that the actuator crates plug into.                *)
(*                                                                         *)
(* threat_level is an f64.  The decisions compare sums such as 0.1 + 0.2   *)
(* with the literal 0.3, so the model keeps binary64 arithmetic: a float   *)
(* is <<sign, hi, lo>> standing for sign * (hi * 2^29 + lo) * 2^-57, and   *)
(* every sum is rounded to 53 significant bits, ties to even.  Every       *)
(* literal of the source is a multiple of 2^-57, so the representation is  *)
(* exact for all values of magnitude below 4.                              *)
(***************************************************************************)
EXTENDS Integers, Sequences, FiniteSets, TLC

VARIABLES
    state,        \* ChameleonState behind Arc<RwLock<..>>
    threshold,    \* AdaptiveManager.threshold
    clock,        \* what chrono::Utc::now() returns
    last,         \* the call that completed last: name, argument, captured values, result
    events,       \* MetricsCollector.events
    counters,     \* MetricsCollector.counters
    calls,        \* how many calls have been made (SpecState, SpecCore, SpecMetrics)
    gate,         \* one application of should_change_posture: arguments and result
    lock,         \* the task holding the write guard of the state's RwLock
    tasks,        \* per task: where it is in evaluate_posture_change, and its locals
    registry,     \* AdaptiveEngine.handlers, in registration order
    channels,     \* per handler: the mpsc channel behind its event_sender
    signals,      \* AdaptiveEngine's history of dispatched events
    dispatch,     \* the process_event call in progress, or the last one completed
    mocks,        \* the MockAdaptiveHandler objects of the engine's tests, by identity
    pe,           \* a PostureEngine, its event channel and the subscriber behind it
    handling,     \* the event ChameleonCore::handle_event has recorded and not yet matched
    lure          \* a Lurefield: its honeypot map, the map's RwLock and the event channel

coreVars == <<state, threshold, clock, last, events, counters, calls>>

gateVars == <<gate>>

concVars == <<lock, tasks>>

dispatchVars == <<registry, channels, signals, dispatch>>

mockVars == <<mocks>>

peVars == <<pe>>

handleVars == <<handling>>

lureVars == <<lure>>

\* what a sequential use of the core leaves alone
apart == <<gateVars, concVars, dispatchVars, mockVars, peVars, handleVars, lureVars>>

vars == <<coreVars, gateVars, concVars, dispatchVars, mockVars, peVars, handleVars, lureVars>>

(***************************************************************************)
(* Bounds of the model.                                                    *)
(***************************************************************************)
MaxClock == 1

MaxCalls == 4

MaxCoreCalls == 3

NumTasks == 2

MaxOverCap == 2

MaxDispatches == 2

MaxHandlers == 3

MaxSlice == 3

MaxPostureCalls == 3

ChannelCapacity == 1

\* force_posture calls in SpecRatchet
MaxForced == 1

(***************************************************************************)
(* binary64 arithmetic on <<sign, hi, lo>>.                                *)
(***************************************************************************)
Limb == 536870912            \* 2^29, the weight of hi

Mag(x) == <<x[2], x[3]>>

MagLess(a, b) == a[1] < b[1] \/ (a[1] = b[1] /\ a[2] < b[2])

MagAddExact(a, b) ==
    LET lo == a[2] + b[2]
    IN  IF lo >= Limb THEN <<a[1] + b[1] + 1, lo - Limb>> ELSE <<a[1] + b[1], lo>>

\* a - b for a >= b
MagSubExact(a, b) ==
    IF a[2] >= b[2] THEN <<a[1] - b[1], a[2] - b[2]>>
                    ELSE <<a[1] - b[1] - 1, a[2] + Limb - b[2]>>

\* the spacing of binary64 values around m, in units of 2^-57
Ulp(m) ==
    IF m[1] >= 1073741824 THEN 128
    ELSE IF m[1] >= 536870912 THEN 64
    ELSE IF m[1] >= 268435456 THEN 32
    ELSE IF m[1] >= 134217728 THEN 16
    ELSE IF m[1] >= 67108864 THEN 8
    ELSE IF m[1] >= 33554432 THEN 4
    ELSE IF m[1] >= 16777216 THEN 2
    ELSE 1

\* round to nearest, ties to even
RoundNearestEven(m) ==
    LET u    == Ulp(m)
        r    == m[2] % u
        q    == m[2] \div u
        down == m[2] - r
        up   == r * 2 > u \/ (r * 2 = u /\ u > 1 /\ q % 2 = 1)
    IN  IF ~up THEN <<m[1], down>>
        ELSE IF down + u >= Limb THEN <<m[1] + 1, down + u - Limb>>
        ELSE <<m[1], down + u>>

MkF64(s, m) == IF m = <<0, 0>> THEN <<1, 0, 0>> ELSE <<s, m[1], m[2]>>

F64Neg(x) == MkF64(0 - x[1], Mag(x))

F64Add(x, y) ==
    IF x[1] = y[1] THEN MkF64(x[1], RoundNearestEven(MagAddExact(Mag(x), Mag(y))))
    ELSE IF MagLess(Mag(x), Mag(y))
         THEN MkF64(y[1], RoundNearestEven(MagSubExact(Mag(y), Mag(x))))
         ELSE MkF64(x[1], RoundNearestEven(MagSubExact(Mag(x), Mag(y))))

F64Sub(x, y) == F64Add(x, F64Neg(y))

F64Lt(x, y) ==
    IF x[1] # y[1] THEN x[1] < y[1]
    ELSE IF x[1] = 1 THEN MagLess(Mag(x), Mag(y))
    ELSE MagLess(Mag(y), Mag(x))

F64Gt(x, y) == F64Lt(y, x)

F64Min(x, y) == IF F64Lt(y, x) THEN y ELSE x

F64Max(x, y) == IF F64Lt(x, y) THEN y ELSE x

F64Abs(x) == <<1, x[2], x[3]>>

F64Ge(x, y) == ~F64Lt(x, y)

\* a count as f64
F64OfCount(k) == <<1, k * 268435456, 0>>

\* k times the magnitude m, exactly
RECURSIVE MagTimes(_, _)
MagTimes(k, m) == IF k = 0 THEN <<0, 0>> ELSE MagAddExact(MagTimes(k - 1, m), m)

\* x * y for x a count
F64Mul(x, y) ==
    MkF64(y[1], RoundNearestEven(MagTimes(x[2] \div 268435456, Mag(y))))

\* x / y for x >= 0 and y a count above zero: the quotient of the magnitudes is
\* taken limb by limb, and what is left over decides the rounding
F64Div(x, y) ==
    LET n    == y[2] \div 268435456
        q1   == x[2] \div n
        r1   == x[2] % n
        t2   == r1 * 16384 + (x[3] \div 32768)
        q2   == t2 \div n
        r2   == t2 % n
        t3   == r2 * 32768 + (x[3] % 32768)
        q3   == t3 \div n
        r3   == t3 % n
        lo   == q2 * 32768 + q3
        u    == Ulp(<<q1, lo>>)
        r    == lo % u
        down == lo - r
        odd  == (lo \div u) % 2 = 1
        up   == IF u = 1
                THEN r3 * 2 > n \/ (r3 * 2 = n /\ odd)
                ELSE r * 2 > u \/ (r * 2 = u /\ (r3 > 0 \/ odd))
    IN  MkF64(x[1], IF ~up THEN <<q1, down>>
                    ELSE IF down + u >= Limb THEN <<q1 + 1, down + u - Limb>>
                    ELSE <<q1, down + u>>)

\* the f64 literals of the source
F0_0  == <<1, 0, 0>>
F0_05 == <<1, 13421772, 429496730>>
F0_1  == <<1, 26843545, 322122548>>
F0_2  == <<1, 53687091, 107374184>>
F0_3  == <<1, 80530636, 429496728>>
F0_4  == <<1, 107374182, 214748368>>
F0_6  == <<1, 161061273, 322122544>>
F0_7  == <<1, 187904819, 107374176>>
F0_75 == <<1, 201326592, 0>>
F0_8  == <<1, 214748364, 429496736>>
F0_9  == <<1, 241591910, 214748368>>
F1_0  == <<1, 268435456, 0>>


(***************************************************************************)
(* Postures, events and severities.                                        *)
(***************************************************************************)
Posture == {"Silent", "Neutral", "Mimetic", "Fulgurant", "Unstable"}

EventType == {"SecurityAlert", "SystemChange", "NetworkActivity", "PostureChange",
              "HoneypotActivity", "FingerprintChange", "ServiceLifecycle",
              "MetricsReport", "Custom"}

\* Option<T>
None == <<>>

Some(v) == <<v>>

\* EventType::Custom(name), for the names that occur
CustomKinds == {"Custom", "Custom(scan)", "Custom(probe)"}

\* Event::severity with SecurityAlert rated Critical
severity_AlertIsCritical(event_type) ==
    CASE event_type = "SecurityAlert"     -> "Critical"
      [] event_type = "PostureChange"     -> "Medium"
      [] event_type = "SystemChange"      -> "Medium"
      [] event_type = "HoneypotActivity"  -> "Medium"
      [] event_type = "FingerprintChange" -> "Low"
      [] event_type = "ServiceLifecycle"  -> "Low"
      [] event_type = "NetworkActivity"   -> "Info"
      [] event_type = "MetricsReport"     -> "Info"
      [] event_type \in CustomKinds       -> "Info"

severity(event_type) ==
    CASE event_type = "SecurityAlert"     -> "High"
      [] event_type = "PostureChange"     -> "Medium"
      [] event_type = "SystemChange"      -> "Medium"
      [] event_type = "HoneypotActivity"  -> "Medium"
      [] event_type = "FingerprintChange" -> "Low"
      [] event_type = "ServiceLifecycle"  -> "Low"
      [] event_type = "NetworkActivity"   -> "Info"
      [] event_type = "MetricsReport"     -> "Info"
      [] event_type \in CustomKinds       -> "Info"

(***************************************************************************)
(* ChameleonState.                                                         *)
(***************************************************************************)
\* HashMap::new()
EmptyMap == [k \in {} |-> None]

NewState ==
    [ status               |-> "Created",
      current_posture      |-> "Neutral",
      started_at           |-> None,
      last_posture_change  |-> None,
      threat_level         |-> F0_0,
      active_services      |-> EmptyMap,
      active_honeypots     |-> <<>>,
      current_fingerprint  |-> None ]

increase_threat_level(s, amount) ==
    [s EXCEPT !.threat_level = F64Min(F64Add(@, amount), F1_0)]

decrease_threat_level(s, amount) ==
    [s EXCEPT !.threat_level = F64Max(F64Sub(@, amount), F0_0)]

add_service(s, name, info) ==
    [s EXCEPT !.active_services =
        [k \in DOMAIN @ \cup {name} |-> IF k = name THEN info ELSE @[k]]]

\* the state left by remove_service and the Option it returns
remove_service(s, name) ==
    IF name \in DOMAIN s.active_services
    THEN [ state |-> [s EXCEPT !.active_services = [k \in DOMAIN @ \ {name} |-> @[k]]],
           ret   |-> Some(s.active_services[name]) ]
    ELSE [ state |-> s, ret |-> None ]

add_honeypot(s, info) == [s EXCEPT !.active_honeypots = Append(@, info)]

\* iter().position(|h| h.id == id): the first index holding the id, 0 when there is none
position(honeypots, id) ==
    IF \E i \in 1..Len(honeypots) : honeypots[i].id = id
    THEN CHOOSE i \in 1..Len(honeypots) :
             /\ honeypots[i].id = id
             /\ \A j \in 1..(i - 1) : honeypots[j].id # id
    ELSE 0

\* Vec::remove(index)
VecRemove(v, index) == SubSeq(v, 1, index - 1) \o SubSeq(v, index + 1, Len(v))

\* remove_honeypot falling back to the last honeypot when the id is not found
remove_honeypot_PopsWhenAbsent(s, id) ==
    LET index == position(s.active_honeypots, id)
        n     == Len(s.active_honeypots)
    IN  IF index # 0
        THEN [ state |-> [s EXCEPT !.active_honeypots = VecRemove(@, index)],
               ret   |-> Some(s.active_honeypots[index]) ]
        ELSE IF n = 0 THEN [ state |-> s, ret |-> None ]
        ELSE [ state |-> [s EXCEPT !.active_honeypots = VecRemove(@, n)],
               ret   |-> Some(s.active_honeypots[n]) ]

remove_honeypot(s, id) ==
    LET index == position(s.active_honeypots, id)
    IN  IF index # 0
        THEN [ state |-> [s EXCEPT !.active_honeypots = VecRemove(@, index)],
               ret   |-> Some(s.active_honeypots[index]) ]
        ELSE [ state |-> s, ret |-> None ]

set_fingerprint(s, fingerprint) == [s EXCEPT !.current_fingerprint = Some(fingerprint)]

clear_fingerprint(s) == [s EXCEPT !.current_fingerprint = None]

\* get_system_state with the two counts taken from the wrong collections
get_system_state_CountsExchanged(s) ==
    [ status                 |-> s.status,
      current_posture        |-> s.current_posture,
      started_at             |-> s.started_at,
      last_posture_change    |-> s.last_posture_change,
      threat_level           |-> s.threat_level,
      active_services_count  |-> Len(s.active_honeypots),
      active_honeypots_count |-> Cardinality(DOMAIN s.active_services),
      current_fingerprint    |-> s.current_fingerprint ]

get_system_state(s) ==
    [ status                 |-> s.status,
      current_posture        |-> s.current_posture,
      started_at             |-> s.started_at,
      last_posture_change    |-> s.last_posture_change,
      threat_level           |-> s.threat_level,
      active_services_count  |-> Cardinality(DOMAIN s.active_services),
      active_honeypots_count |-> Len(s.active_honeypots),
      current_fingerprint    |-> s.current_fingerprint ]

(***************************************************************************)
(* AdaptiveManager.                                                        *)
(***************************************************************************)
DefaultThreshold == F0_75

set_threshold(t) == F64Min(F64Max(t, F0_0), F1_0)

\* AdjustThreat with the Critical and High arms exchanged
AdjustThreat_ArmsExchanged(s, sev) ==
    CASE sev = "Critical" -> increase_threat_level(s, F0_2)
      [] sev = "High"     -> increase_threat_level(s, F0_4)
      [] sev = "Medium"   -> increase_threat_level(s, F0_1)
      [] sev = "Low"      -> increase_threat_level(s, F0_05)
      [] sev = "Info"     -> s

\* the match on event.severity() in evaluate_posture_change
AdjustThreat(s, sev) ==
    CASE sev = "Critical" -> increase_threat_level(s, F0_4)
      [] sev = "High"     -> increase_threat_level(s, F0_2)
      [] sev = "Medium"   -> increase_threat_level(s, F0_1)
      [] sev = "Low"      -> increase_threat_level(s, F0_05)
      [] sev = "Info"     -> s

\* determine_optimal_posture with the breakpoints taken into the band below
determine_optimal_posture_Inclusive(t) ==
    IF ~F64Lt(F0_2, t) THEN "Neutral"
    ELSE IF ~F64Lt(F0_4, t) THEN "Silent"
    ELSE IF ~F64Lt(F0_6, t) THEN "Mimetic"
    ELSE IF ~F64Lt(F0_8, t) THEN "Fulgurant"
    ELSE "Unstable"

determine_optimal_posture(t) ==
    IF F64Lt(t, F0_2) THEN "Neutral"
    ELSE IF F64Lt(t, F0_4) THEN "Silent"
    ELSE IF F64Lt(t, F0_6) THEN "Mimetic"
    ELSE IF F64Lt(t, F0_8) THEN "Fulgurant"
    ELSE "Unstable"

\* the arms of the match that yield true
EscalationPairs ==
    { <<"Neutral", "Silent">>, <<"Neutral", "Mimetic">>, <<"Neutral", "Fulgurant">>,
      <<"Neutral", "Unstable">>,
      <<"Silent", "Mimetic">>, <<"Silent", "Fulgurant">>, <<"Silent", "Unstable">>,
      <<"Mimetic", "Fulgurant">>, <<"Mimetic", "Unstable">>,
      <<"Fulgurant", "Unstable">> }

is_escalation(current, proposed) == <<current, proposed>> \in EscalationPairs

\* should_change_posture with the two final branches exchanged
should_change_posture_BranchesExchanged(thr, current, proposed, old_threat, new_threat) ==
    IF F64Gt(F64Abs(F64Sub(new_threat, old_threat)), thr) THEN TRUE
    ELSE IF is_escalation(current, proposed)
         THEN F64Lt(new_threat, old_threat) /\ F64Gt(F64Sub(old_threat, new_threat), F0_2)
         ELSE F64Gt(new_threat, old_threat) /\ F64Gt(new_threat, F0_3)

\* should_change_posture de-escalating as soon as the threat has dropped at all
should_change_posture_NoGap(thr, current, proposed, old_threat, new_threat) ==
    IF F64Gt(F64Abs(F64Sub(new_threat, old_threat)), thr) THEN TRUE
    ELSE IF is_escalation(current, proposed)
         THEN F64Gt(new_threat, old_threat) /\ F64Gt(new_threat, F0_3)
         ELSE F64Lt(new_threat, old_threat)

\* should_change_posture escalating on any rise of the threat, without the 0.3 floor
should_change_posture_NoFloor(thr, current, proposed, old_threat, new_threat) ==
    IF F64Gt(F64Abs(F64Sub(new_threat, old_threat)), thr) THEN TRUE
    ELSE IF is_escalation(current, proposed)
         THEN F64Gt(new_threat, old_threat)
         ELSE F64Lt(new_threat, old_threat) /\ F64Gt(F64Sub(old_threat, new_threat), F0_2)

should_change_posture(thr, current, proposed, old_threat, new_threat) ==
    IF F64Gt(F64Abs(F64Sub(new_threat, old_threat)), thr) THEN TRUE
    ELSE IF is_escalation(current, proposed)
         THEN F64Gt(new_threat, old_threat) /\ F64Gt(new_threat, F0_3)
         ELSE F64Lt(new_threat, old_threat) /\ F64Gt(F64Sub(old_threat, new_threat), F0_2)

\* evaluate_posture_change giving up the raised threat level when the gate refuses
evaluate_posture_change_RollsBack(s, thr, event_type, now) ==
    LET s1          == AdjustThreat(s, severity(event_type))
        new_posture == determine_optimal_posture(s1.threat_level)
        change      == /\ new_posture # s.current_posture
                       /\ should_change_posture(thr, s.current_posture, new_posture,
                                                s.threat_level, s1.threat_level)
    IN  [ state |-> IF change
                    THEN [s1 EXCEPT !.current_posture = new_posture,
                                    !.last_posture_change = Some(now)]
                    ELSE IF new_posture # s.current_posture THEN s ELSE s1,
          ret   |-> change ]

\* the body of evaluate_posture_change between taking and dropping the write guard
evaluate_posture_change(s, thr, event_type, now) ==
    LET s1          == AdjustThreat(s, severity(event_type))
        new_posture == determine_optimal_posture(s1.threat_level)
        change      == /\ new_posture # s.current_posture
                       /\ should_change_posture(thr, s.current_posture, new_posture,
                                                s.threat_level, s1.threat_level)
    IN  [ state |-> IF change
                    THEN [s1 EXCEPT !.current_posture = new_posture,
                                    !.last_posture_change = Some(now)]
                    ELSE s1,
          ret   |-> change ]

\* force_posture without the write of last_posture_change
force_posture_Unstamped(s, posture, now) ==
    [s EXCEPT !.current_posture = posture]

force_posture(s, posture, now) ==
    [s EXCEPT !.current_posture = posture, !.last_posture_change = Some(now)]


(***************************************************************************)
(* MetricsCollector.                                                       *)
(***************************************************************************)
HistoryCap == 10000

Event(timestamp, event_type, source, data) ==
    [timestamp |-> timestamp, event_type |-> event_type, source |-> source, data |-> data]

\* increment_counter that starts the count again on every call
increment_counter_Restarted(ctrs, key) ==
    [k \in DOMAIN ctrs \cup {key} |-> IF k = key THEN 1 ELSE ctrs[k]]

increment_counter(ctrs, key) ==
    IF key \in DOMAIN ctrs
    THEN [ctrs EXCEPT ![key] = @ + 1]
    ELSE [k \in DOMAIN ctrs \cup {key} |-> IF k = key THEN 1 ELSE ctrs[k]]

\* get_counter: a key that was never written reads 0
get_counter(ctrs, key) == IF key \in DOMAIN ctrs THEN ctrs[key] ELSE 0

\* PushAndTrim dropping the new events instead of the old ones once the history is full
PushAndTrim_KeepOldest(evs, event) ==
    LET pushed == Append(evs, event)
    IN  IF Len(pushed) > HistoryCap THEN SubSeq(pushed, 1, HistoryCap) ELSE pushed

\* events.push, then the trim to the most recent HistoryCap events
PushAndTrim(evs, event) ==
    LET pushed == Append(evs, event)
    IN  IF Len(pushed) > HistoryCap
        THEN SubSeq(pushed, Len(pushed) - HistoryCap + 1, Len(pushed))
        ELSE pushed

\* record_event that counts the event but does not keep it
record_event_NoHistory(evs, ctrs, event) ==
    [ events   |-> evs,
      counters |-> increment_counter(
                     increment_counter(
                       increment_counter(ctrs, <<"event_count_", event.event_type>>),
                       <<"event_source_", event.source>>),
                     <<"severity_", severity(event.event_type)>>) ]

\* the history and the counters record_event leaves; a counter key is <<prefix, value>>
record_event(evs, ctrs, event) ==
    [ events   |-> PushAndTrim(evs, event),
      counters |-> increment_counter(
                     increment_counter(
                       increment_counter(ctrs, <<"event_count_", event.event_type>>),
                       <<"event_source_", event.source>>),
                     <<"severity_", severity(event.event_type)>>) ]

\* a dispatch that hands every event to the adaptive manager
handle_event_match_EvaluatesAll(s, thr, event, now) ==
    evaluate_posture_change(s, thr, event.event_type, now).state

(***************************************************************************)
(* ChameleonCore.                                                          *)
(***************************************************************************)
\* the match on the event type: a SecurityAlert is evaluated, the other arms
\* only log
handle_event_match(s, thr, event, now) ==
    IF event.event_type = "SecurityAlert"
    THEN evaluate_posture_change(s, thr, event.event_type, now).state
    ELSE s

\* record the event, then evaluate it when it is a SecurityAlert; the bool that
\* evaluate_posture_change returns is dropped
handle_event(s, thr, evs, ctrs, event, now) ==
    LET m == record_event(evs, ctrs, event)
    IN  [ state    |-> handle_event_match(s, thr, event, now),
          events   |-> m.events,
          counters |-> m.counters ]

\* the write under the guard, then register_event -> handle_event once it is dropped
change_posture(s, thr, evs, ctrs, posture, now) ==
    LET old_posture == s.current_posture
        s1          == [s EXCEPT !.current_posture = posture]
    IN  handle_event(s1, thr, evs, ctrs,
                     Event(now, "PostureChange", "core",
                           Some([old_posture |-> old_posture, new_posture |-> posture])),
                     now)

\* init, start and stop each write two statuses under one write guard
init(s) == [s EXCEPT !.status = "Ready"]

start(s) == [s EXCEPT !.status = "Running"]

stop(s) == [s EXCEPT !.status = "Stopped"]

(***************************************************************************)
(* Spec: one AdaptiveManager over a fresh ChameleonState, its public       *)
(* methods called one after another.                                       *)
(***************************************************************************)
\* a call that has completed
\* a call that has completed: its name and argument, the posture and threat it found,
\* the time it read and what it returned
Call(op, arg, old_posture, old_threat, at, ret) ==
    [op |-> op, arg |-> arg, old_posture |-> old_posture, old_threat |-> old_threat,
     at |-> at, ret |-> ret]

NoCall == Call("new", "", "Neutral", F0_0, 0, FALSE)

MetricsNew == events = <<>> /\ counters = EmptyMap

\* inputs of set_threshold: below the range, inside it, above it
FNeg0_5 == <<-1, 134217728, 0>>

F1_5 == <<1, 402653184, 0>>

ThresholdInputs == {FNeg0_5, F0_1, F1_5}

\* no Lurefield has been constructed
LurefieldUnused == lure = None

CoreNew ==
    /\ handling = None
    /\ LurefieldUnused
    /\ state = NewState
    /\ threshold = DefaultThreshold
    /\ clock = 0
    /\ last = NoCall
    /\ MetricsNew
    /\ calls = 0

\* no application of the gate under way
GateUnused ==
    gate = [thr |-> DefaultThreshold, current |-> "Neutral", proposed |-> "Neutral",
            old_threat |-> F0_0, new_threat |-> F0_0, result |-> None]

NoTask == 0

\* no task has called into the manager
TasksUnused == lock = NoTask /\ tasks = EmptyMap

\* AdaptiveEngine::new(): no handler, nothing dispatched
(***************************************************************************)
(* PostureEngine (posture_engine): its configuration, posture, history and *)
(* the channel it announces posture changes on.                            *)
(***************************************************************************)
\* mpsc::channel: nothing queued, receiver alive
NewChannel == [closed |-> FALSE, queue |-> <<>>]

PostureEngineConfig_default == [change_threshold |-> F0_75, postures |-> Posture]

\* what a call returned; the rest is what the call was given and what it found
Returned(op, tag, value, sent, before, history_before, threat, slice) ==
    [op |-> op, tag |-> tag, value |-> value, sent |-> sent, before |-> before,
     history_before |-> history_before, threat |-> threat, events |-> slice]

NothingReturned == Returned("", "None", FALSE, FALSE, "Neutral", 0, F0_0, <<>>)

\* PostureEngine::new, with the receiving side of its channel: a subscriber
\* that starts at Neutral and has been handed no event yet
PostureEngine_new(config) ==
    [ config          |-> config,
      current_posture |-> "Neutral",
      posture_history |-> <<>>,
      event_sender    |-> NewChannel,
      pending         |-> None,
      ret             |-> NothingReturned,
      subscriber      |-> "Neutral",
      delivered       |-> 0,
      observed        |-> 0 ]

PostureEngineNew == pe = PostureEngine_new(PostureEngineConfig_default)

EngineNew ==
    /\ registry = <<>>
    /\ channels = EmptyMap
    /\ signals = <<>>
    /\ mocks = <<>>
    /\ dispatch = [phase |-> "idle", event |-> None, snapshot |-> <<>>, next |-> 1,
                   log |-> <<>>, result |-> [tag |-> "None", handler |-> "", cause |-> ""]]

Init == CoreNew /\ GateUnused /\ TasksUnused /\ EngineNew /\ PostureEngineNew

\* chrono::Utc::now() does not go back
Tick ==
    /\ clock < MaxClock
    /\ clock' = clock + 1
    /\ UNCHANGED <<state, threshold, last, events, counters, calls, apart>>

EvaluatePostureChange ==
    \E event_type \in EventType :
        LET r == evaluate_posture_change(state, threshold, event_type, clock)
        IN  /\ state' = r.state
            /\ last' = Call("evaluate_posture_change", event_type, state.current_posture,
                            state.threat_level, clock, r.ret)
            /\ UNCHANGED <<threshold, clock, events, counters, calls, apart>>

ForcePosture ==
    \E posture \in Posture :
        /\ state' = force_posture(state, posture, clock)
        /\ last' = Call("force_posture", posture, state.current_posture,
                        state.threat_level, clock, TRUE)
        /\ UNCHANGED <<threshold, clock, events, counters, calls, apart>>

SetThreshold ==
    \E t \in ThresholdInputs :
        /\ threshold' = set_threshold(t)
        /\ last' = Call("set_threshold", t, state.current_posture, state.threat_level, clock, TRUE)
        /\ UNCHANGED <<state, clock, events, counters, calls, apart>>

Next == Tick \/ EvaluatePostureChange \/ ForcePosture \/ SetThreshold

Spec == Init /\ [][Next]_vars


(***************************************************************************)
(* SpecCore: one ChameleonCore (state, AdaptiveManager with the default    *)
(* threshold, MetricsCollector), its methods called one after another.     *)
(***************************************************************************)
Sources == {"eye360"}

CoreCounted ==
    /\ calls < MaxCoreCalls
    /\ calls' = calls + 1
    /\ UNCHANGED <<threshold, clock, apart>>

HandleEvent ==
    \E event_type \in EventType, source \in Sources :
        LET r == handle_event(state, threshold, events, counters,
                              Event(clock, event_type, source, None), clock)
        IN  /\ state' = r.state
            /\ events' = r.events
            /\ counters' = r.counters
            /\ last' = Call("handle_event", event_type, state.current_posture,
                            state.threat_level, clock, TRUE)
            /\ CoreCounted

ChangePosture ==
    \E posture \in Posture :
        LET r == change_posture(state, threshold, events, counters, posture, clock)
        IN  /\ state' = r.state
            /\ events' = r.events
            /\ counters' = r.counters
            /\ last' = Call("change_posture", posture, state.current_posture,
                            state.threat_level, clock, TRUE)
            /\ CoreCounted

CoreForcePosture ==
    \E posture \in Posture :
        /\ state' = force_posture(state, posture, clock)
        /\ last' = Call("force_posture", posture, state.current_posture,
                        state.threat_level, clock, TRUE)
        /\ UNCHANGED <<events, counters>>
        /\ CoreCounted

CoreGetState ==
    /\ last' = Call("get_state", state, state.current_posture, state.threat_level, clock,
                    get_system_state(state))
    /\ UNCHANGED <<state, events, counters>>
    /\ CoreCounted

CoreInit ==
    /\ state' = init(state)
    /\ last' = Call("init", "", state.current_posture, state.threat_level, clock, TRUE)
    /\ UNCHANGED <<events, counters>>
    /\ CoreCounted

CoreStart ==
    /\ state' = start(state)
    /\ last' = Call("start", "", state.current_posture, state.threat_level, clock, TRUE)
    /\ UNCHANGED <<events, counters>>
    /\ CoreCounted

CoreStop ==
    /\ state' = stop(state)
    /\ last' = Call("stop", "", state.current_posture, state.threat_level, clock, TRUE)
    /\ UNCHANGED <<events, counters>>
    /\ CoreCounted

NextCore ==
    \/ Tick
    \/ HandleEvent
    \/ ChangePosture
    \/ CoreForcePosture
    \/ CoreGetState
    \/ CoreInit
    \/ CoreStart
    \/ CoreStop

SpecCore == Init /\ [][NextCore]_vars

(***************************************************************************)
(* Claims about the continuous per-event evaluation (Spec).                *)
(***************************************************************************)
\* the values the hysteresis scenario passes through
F0_5 == <<1, 134217728, 0>>

F0_30000000000000004 == <<1, 80530636, 429496736>>

EvaluatedFrom(event_type, posture, threat) ==
    /\ last.op = "evaluate_posture_change"
    /\ last.arg = event_type
    /\ last.old_posture = posture
    /\ last.old_threat = threat

\* C2 as the spec states it: from Neutral at threat 0.1 a first High-severity event
\* leaves threat 0.3 and the posture unchanged; a second one, from threat 0.3,
\* leaves threat 0.5 and changes the posture to Mimetic.
C2_HysteresisAsStated ==
    /\ EvaluatedFrom("SecurityAlert", "Neutral", F0_1) =>
           /\ state.threat_level = F0_3
           /\ state.current_posture = "Neutral"
           /\ ~last.ret
    /\ EvaluatedFrom("SecurityAlert", "Neutral", F0_3) =>
           /\ state.threat_level = F0_5
           /\ state.current_posture = "Mimetic"
           /\ last.ret

\* C2 amended: from Neutral at threat 0.1 a first High-severity event leaves
\* threat 0.1 + 0.2 = 0.30000000000000004, which is above 0.3, and changes the
\* posture to Silent; a second one leaves threat 0.5 and changes the posture to
\* Mimetic.
C2_HysteresisAmended ==
    /\ EvaluatedFrom("SecurityAlert", "Neutral", F0_1) =>
           /\ state.threat_level = F0_30000000000000004
           /\ F64Gt(state.threat_level, F0_3)
           /\ state.current_posture = "Silent"
           /\ last.ret
    /\ EvaluatedFrom("SecurityAlert", "Silent", F0_30000000000000004) =>
           /\ state.threat_level = F0_5
           /\ state.current_posture = "Mimetic"
           /\ last.ret

\* the second High-severity event of the scenario has been evaluated
C2_Witness ==
    /\ EvaluatedFrom("SecurityAlert", "Silent", F0_30000000000000004)
    /\ state.current_posture = "Mimetic"

\* C3: from Neutral at threat 0.1, evaluate_posture_change on one SecurityAlert
\* returns true, commits Silent and leaves the threat level above 0.1.
C3_ThreatEscalation ==
    EvaluatedFrom("SecurityAlert", "Neutral", F0_1) =>
        /\ last.ret
        /\ state.current_posture = "Silent"
        /\ state.current_posture = determine_optimal_posture(state.threat_level)
        /\ F64Gt(state.threat_level, F0_1)

C3_Witness ==
    /\ EvaluatedFrom("SecurityAlert", "Neutral", F0_1)
    /\ threshold = DefaultThreshold
    /\ last.ret

\* C6: force_posture(p), whatever the posture, threat level and threshold it finds,
\* ends with current_posture = p and last_posture_change = the time of the call, and
\* leaves threat_level as it was.
C6_ForceBypassesGate ==
    last.op = "force_posture" =>
        /\ state.current_posture = last.arg
        /\ state.last_posture_change = Some(last.at)
        /\ state.threat_level = last.old_threat

\* a forced de-escalation at saturated threat, which the gate refuses
C6_Witness ==
    /\ last.op = "force_posture"
    /\ last.old_posture = "Unstable"
    /\ last.arg = "Silent"
    /\ last.old_threat = F1_0
    /\ last.at > 0
    /\ ~should_change_posture(threshold, "Unstable", "Silent", F1_0, F1_0)
    /\ state.current_posture = "Silent"


(***************************************************************************)
(* SpecState: the methods of one ChameleonState and ChameleonCore's        *)
(* get_state, called one after another.                                    *)
(***************************************************************************)
\* amounts passed to increase_threat_level / decrease_threat_level: negative, inside
\* (0, 1) and above one
Amounts == {FNeg0_5, F0_3, F1_5}

ServiceNames == {"ssh", "http"}

ServiceInfo(name) == [name |-> name, service_type |-> "decoy", port |-> 22]

HoneypotIds == {"hp1", "hp2"}

HoneypotInfo(id) == [id |-> id, honeypot_type |-> "ssh", port |-> 2222]

Fingerprints == {"win2008_smb1"}

\* one more call on the state; the rest of the program is not involved
Counted ==
    /\ calls < MaxCalls
    /\ calls' = calls + 1
    /\ UNCHANGED <<threshold, clock, events, counters, apart>>

IncreaseThreatLevel ==
    \E amount \in Amounts :
        /\ state' = increase_threat_level(state, amount)
        /\ last' = Call("increase_threat_level", amount, state.current_posture,
                        state.threat_level, clock, TRUE)
        /\ Counted

DecreaseThreatLevel ==
    \E amount \in Amounts :
        /\ state' = decrease_threat_level(state, amount)
        /\ last' = Call("decrease_threat_level", amount, state.current_posture,
                        state.threat_level, clock, TRUE)
        /\ Counted

AddService ==
    \E name \in ServiceNames :
        /\ state' = add_service(state, name, ServiceInfo(name))
        /\ last' = Call("add_service", name, state.current_posture, state.threat_level,
                        clock, TRUE)
        /\ Counted

RemoveService ==
    \E name \in ServiceNames :
        LET r == remove_service(state, name)
        IN  /\ state' = r.state
            /\ last' = Call("remove_service", name, state.current_posture,
                            state.threat_level, clock, r.ret)
            /\ Counted

AddHoneypot ==
    \E id \in HoneypotIds :
        /\ state' = add_honeypot(state, HoneypotInfo(id))
        /\ last' = Call("add_honeypot", id, state.current_posture, state.threat_level,
                        clock, TRUE)
        /\ Counted

RemoveHoneypot ==
    \E id \in HoneypotIds :
        LET r == remove_honeypot(state, id)
        IN  /\ state' = r.state
            /\ last' = Call("remove_honeypot", id, state.current_posture,
                            state.threat_level, clock, r.ret)
            /\ Counted

SetFingerprint ==
    \E fingerprint \in Fingerprints :
        /\ state' = set_fingerprint(state, fingerprint)
        /\ last' = Call("set_fingerprint", fingerprint, state.current_posture,
                        state.threat_level, clock, TRUE)
        /\ Counted

ClearFingerprint ==
    /\ state' = clear_fingerprint(state)
    /\ last' = Call("clear_fingerprint", "", state.current_posture, state.threat_level,
                    clock, TRUE)
    /\ Counted

\* ChameleonCore::get_state: a read guard, then get_system_state; the receiver it read
\* is kept as the call's argument
GetState ==
    /\ last' = Call("get_state", state, state.current_posture, state.threat_level, clock,
                    get_system_state(state))
    /\ UNCHANGED state /\ Counted

NextState ==
    \/ IncreaseThreatLevel
    \/ DecreaseThreatLevel
    \/ AddService
    \/ RemoveService
    \/ AddHoneypot
    \/ RemoveHoneypot
    \/ SetFingerprint
    \/ ClearFingerprint
    \/ GetState

SpecState == Init /\ [][NextState]_vars


(***************************************************************************)
(* Claims about the shared state container (SpecState).                    *)
(***************************************************************************)
\* C4: after every increase_threat_level / decrease_threat_level call, whatever the
\* amount, threat_level is within [0.0, 1.0].
C4_ThreatLevelClamped ==
    /\ ~F64Lt(state.threat_level, F0_0)
    /\ ~F64Gt(state.threat_level, F1_0)

\* what a get_state that returned `snapshot` has left behind
SnapshotOf(snapshot) ==
    /\ state = last.arg
    /\ snapshot.status = state.status
    /\ snapshot.current_posture = state.current_posture
    /\ snapshot.started_at = state.started_at
    /\ snapshot.last_posture_change = state.last_posture_change
    /\ snapshot.threat_level = state.threat_level
    /\ snapshot.current_fingerprint = state.current_fingerprint
    /\ snapshot.active_services_count = Cardinality(DOMAIN state.active_services)
    /\ snapshot.active_honeypots_count = Len(state.active_honeypots)

\* C8: get_state changes no field of the shared state, its snapshot carries the sizes
\* of active_services and active_honeypots as the two counts, and a get_state that
\* directly follows a get_state returns the same snapshot.
C8_GetStateIsPureRead ==
    /\ [](last.op = "get_state" => SnapshotOf(last.ret))
    /\ [][(last.op = "get_state" /\ last'.op = "get_state") => last'.ret = last.ret]_vars

\* a second get_state in a row, on a state whose two collections differ in size
C8_Witness ==
    /\ last.op = "get_state"
    /\ last.ret.active_services_count = 2
    /\ last.ret.active_honeypots_count = 1
    /\ calls = 4


(***************************************************************************)
(* Claims about the core service (SpecCore).                               *)
(***************************************************************************)
\* the call that completed last has committed a posture through the decision engine
DecisionCommitted ==
    \/ last.op = "handle_event" /\ state.current_posture # last.old_posture
    \/ last.op = "force_posture"

\* C5: whenever evaluate commits a new posture or force_posture commits, a
\* PostureChange event carrying the old and the new posture has been emitted.
C5_CommitIsNotified ==
    DecisionCommitted =>
        /\ events # <<>>
        /\ events[Len(events)].event_type = "PostureChange"
        /\ events[Len(events)].data =
               Some([old_posture |-> last.old_posture, new_posture |-> state.current_posture])


(***************************************************************************)
(* SpecGate: should_change_posture applied once to arguments drawn from    *)
(* small sets.                                                             *)
(***************************************************************************)
F0_62 == <<1, 166429982, 386547056>>

ThreatSamples == {F0_0, F0_1, F0_3, F0_5, F0_62, F0_75, F1_0}

ThresholdSamples == {F0_1, DefaultThreshold, F1_0}

InitGate ==
    /\ CoreNew /\ TasksUnused /\ EngineNew /\ PostureEngineNew
    /\ gate \in [thr : ThresholdSamples, current : Posture, proposed : Posture,
                 old_threat : ThreatSamples, new_threat : ThreatSamples, result : {None}]

ApplyGate ==
    /\ gate.result = None
    /\ gate' = [gate EXCEPT !.result = Some(should_change_posture(
                    gate.thr, gate.current, gate.proposed, gate.old_threat, gate.new_threat))]
    /\ UNCHANGED <<coreVars, concVars, dispatchVars, mockVars, peVars, handleVars, lureVars>>

NextGate == ApplyGate

SpecGate == InitGate /\ [][NextGate]_vars

\* the escalation order of the postures
Rank(posture) ==
    CASE posture = "Neutral"   -> 0
      [] posture = "Silent"    -> 1
      [] posture = "Mimetic"   -> 2
      [] posture = "Fulgurant" -> 3
      [] posture = "Unstable"  -> 4

GateApplied(current, old_threat, new_threat) ==
    /\ gate.result # None
    /\ gate.current = current
    /\ gate.old_threat = old_threat
    /\ gate.new_threat = new_threat
    /\ Rank(gate.proposed) < Rank(gate.current)

\* C7: for a de-escalating pair whose threat difference is not above the threshold the
\* gate allows the change exactly when new_threat < old_threat and
\* old_threat - new_threat > 0.2; so from Fulgurant at 0.75 it refuses at 0.62 and
\* allows at 0.50.
C7_DeEscalationNeedsLargerGap ==
    (/\ gate.result # None
     /\ Rank(gate.proposed) < Rank(gate.current)
     /\ ~F64Gt(F64Abs(F64Sub(gate.new_threat, gate.old_threat)), gate.thr)) =>
        /\ gate.result = Some(/\ F64Lt(gate.new_threat, gate.old_threat)
                              /\ F64Gt(F64Sub(gate.old_threat, gate.new_threat), F0_2))
        /\ GateApplied("Fulgurant", F0_75, F0_62) => gate.result = Some(FALSE)
        /\ GateApplied("Fulgurant", F0_75, F0_5) => gate.result = Some(TRUE)

\* Fulgurant at 0.75 moving to 0.50 under the default threshold
C7_Witness ==
    /\ GateApplied("Fulgurant", F0_75, F0_5)
    /\ gate.proposed = "Mimetic"
    /\ gate.thr = DefaultThreshold
    /\ gate.result = Some(TRUE)


(***************************************************************************)
(* SpecConc: NumTasks tasks, each calling evaluate_posture_change once on  *)
(* the same AdaptiveManager; a step is what one task does between two      *)
(* points where another task can run.                                      *)
(***************************************************************************)
Tasks == 1..NumTasks

\* the write guard is exclusive: write().await resumes only when nobody holds the lock
\* (variant: a guard that excludes nobody)
write_available_Always(holder) == TRUE

write_available(holder) == holder = NoTask

TaskAt(pc, event_type, current_posture, threat_level, ret) ==
    [pc |-> pc, event_type |-> event_type, current_posture |-> current_posture,
     threat_level |-> threat_level, ret |-> ret]

InitConc ==
    /\ CoreNew /\ GateUnused /\ EngineNew /\ PostureEngineNew
    /\ lock = NoTask
    /\ tasks \in [Tasks -> {TaskAt("write", event_type, "Neutral", F0_0, FALSE) :
                               event_type \in EventType}]

\* let mut state = self.state.write().await; the two reads that follow
Acquire(t) ==
    /\ tasks[t].pc = "write"
    /\ write_available(lock)
    /\ lock' = t
    /\ tasks' = [tasks EXCEPT ![t] = TaskAt("adjust", @.event_type, state.current_posture,
                                            state.threat_level, FALSE)]
    /\ UNCHANGED <<coreVars, gateVars, dispatchVars, mockVars, peVars, handleVars, lureVars>>

\* match event.severity() { .. state.increase_threat_level(..) .. }
Adjust(t) ==
    /\ tasks[t].pc = "adjust"
    /\ state' = AdjustThreat(state, severity(tasks[t].event_type))
    /\ tasks' = [tasks EXCEPT ![t].pc = "decide"]
    /\ UNCHANGED <<threshold, clock, last, events, counters, calls, lock, gateVars,
                   dispatchVars, mockVars, peVars, handleVars, lureVars>>

\* determine_optimal_posture, the two ifs and the commit
Decide(t) ==
    /\ tasks[t].pc = "decide"
    /\ LET new_posture == determine_optimal_posture(state.threat_level)
           change      == /\ new_posture # tasks[t].current_posture
                          /\ should_change_posture(threshold, tasks[t].current_posture,
                                 new_posture, tasks[t].threat_level, state.threat_level)
       IN  /\ state' = IF change
                       THEN [state EXCEPT !.current_posture = new_posture,
                                          !.last_posture_change = Some(clock)]
                       ELSE state
           /\ tasks' = [tasks EXCEPT ![t].pc = "drop", ![t].ret = change]
    /\ UNCHANGED <<threshold, clock, last, events, counters, calls, lock, gateVars,
                   dispatchVars, mockVars, peVars, handleVars, lureVars>>

\* drop(state); return
Release(t) ==
    /\ tasks[t].pc = "drop"
    /\ lock' = IF lock = t THEN NoTask ELSE lock
    /\ tasks' = [tasks EXCEPT ![t].pc = "done"]
    /\ UNCHANGED <<coreVars, gateVars, dispatchVars, mockVars, peVars, handleVars, lureVars>>

NextConc == \E t \in Tasks : Acquire(t) \/ Adjust(t) \/ Decide(t) \/ Release(t)

SpecConc == InitConc /\ [][NextConc]_vars

\* the orders in which the tasks can run one at a time
Orders == {o \in [Tasks -> Tasks] : \A i, j \in Tasks : o[i] = o[j] => i = j}

\* the calls of order[i..NumTasks] run one after another from state s: the final
\* state and the bool each task gets
RECURSIVE SerialRun(_, _, _, _)
SerialRun(s, order, i, rets) ==
    IF i > NumTasks THEN [state |-> s, rets |-> rets]
    ELSE LET r == evaluate_posture_change(s, threshold, tasks[order[i]].event_type, clock)
         IN  SerialRun(r.state, order, i + 1, [rets EXCEPT ![order[i]] = r.ret])

InCriticalSection(t) == tasks[t].pc \in {"adjust", "decide", "drop"}

\* C1: a task between its read of the state and its drop of the guard is the one
\* holder of the lock, and once every call has returned, threat_level,
\* current_posture and every returned bool are those of the calls run one at a
\* time in some order.
C1_EvaluateSerializable ==
    /\ \A t \in Tasks : InCriticalSection(t) => lock = t
    /\ (\A t \in Tasks : tasks[t].pc = "done") =>
           \E order \in Orders :
               LET r == SerialRun(NewState, order, 1, [t \in Tasks |-> FALSE])
               IN  /\ r.state.threat_level = state.threat_level
                   /\ r.state.current_posture = state.current_posture
                   /\ \A t \in Tasks : r.rets[t] = tasks[t].ret

\* two SecurityAlerts evaluated concurrently: whichever runs second commits Mimetic
C1_Witness ==
    /\ \A t \in Tasks : tasks[t].pc = "done" /\ tasks[t].event_type = "SecurityAlert"
    /\ \E t, u \in Tasks : tasks[t].ret /\ ~tasks[u].ret
    /\ state.current_posture = "Mimetic"


(***************************************************************************)
(* SpecMetrics: one MetricsCollector, record_event called again and again  *)
(* one call or one burst at a time, until the history has been full for    *)
(* MaxOverCap calls.  The n-th event recorded carries n as its payload.    *)
(***************************************************************************)
\* record_event called for the events numbered from..to, in that order
RECURSIVE RecordRange(_, _, _, _, _, _)
RecordRange(evs, ctrs, source, now, from, to) ==
    IF from > to THEN [events |-> evs, counters |-> ctrs]
    ELSE IF from = to
    THEN record_event(evs, ctrs, Event(now, "MetricsReport", source, Some(from)))
    ELSE LET mid   == (from + to) \div 2
             first == RecordRange(evs, ctrs, source, now, from, mid)
         IN  IF Len(first.events) > 0   \* the first half is done before the second starts
             THEN RecordRange(first.events, first.counters, source, now, mid + 1, to)
             ELSE first

\* a producer calls record_event n times in a row
Recorded(source, n) ==
    LET r == RecordRange(events, counters, source, clock, calls + 1, calls + n)
    IN  /\ calls + n <= HistoryCap + MaxOverCap
        /\ events' = r.events
        /\ counters' = r.counters
        /\ calls' = calls + n
        /\ last' = Call("record_event", calls + n, state.current_posture,
                        state.threat_level, clock, TRUE)
        /\ UNCHANGED <<state, threshold, clock, apart>>

RecordEvent == \E source \in Sources : Recorded(source, 1)

\* a burst that fills an empty history
RecordBurst == \E source \in Sources : Recorded(source, HistoryCap)

NextMetrics == RecordEvent \/ RecordBurst

SpecMetrics == Init /\ [][NextMetrics]_vars

Min(a, b) == IF a < b THEN a ELSE b

\* C9: after n record_event calls the history holds min(n, 10000) events, the most
\* recently recorded ones in recording order; after 10001 calls it holds 10000 and
\* the first recorded event is gone.
C9_HistoryIsBoundedFifo ==
    /\ Len(events) = Min(calls, 10000)
    /\ \A i \in 1..Len(events) : events[i].data = Some(calls - Len(events) + i)
    /\ calls = 10001 => Len(events) = 10000 /\ events[1].data = Some(2)

\* the call that evicts the first recorded event has been made
C9_Witness ==
    /\ calls = 10001
    /\ Len(events) = 10000
    /\ events[1].data # Some(1)
    /\ events[10000].data = Some(10001)

(***************************************************************************)
(* The reactive handlers: Eye360Handler, PostureEngineHandler and          *)
(* LurefieldHandler, each writing to the mpsc channel behind its           *)
(* event_sender.                                                           *)
(***************************************************************************)
HandlerNames == {"eye360", "posture_engine", "lurefield"}

\* the event types a handler reacts to
Relevant(handler) ==
    CASE handler = "eye360"         -> {"SecurityAlert", "SystemChange"}
      [] handler = "posture_engine" -> {"SecurityAlert", "SystemChange", "NetworkActivity"}
      [] handler = "lurefield"      -> {"SecurityAlert", "NetworkActivity"}

\* the event a handler derives from the one it is given
Derived(handler, event, now) ==
    CASE handler = "eye360" ->
           Event(now, "SystemChange", "eye360_handler", Some(event.severity))
      [] handler = "posture_engine" ->
           Event(now, "PostureChange", "posture_engine_handler", Some(event.severity))
      [] handler = "lurefield" ->
           Event(now, "HoneypotActivity", "lurefield_handler", Some(event.severity))

\* the text of the error a handler returns when its send fails
SendFailure(handler) ==
    CASE handler = "eye360"         -> "Failed to send system event"
      [] handler = "posture_engine" -> "Failed to send posture event"
      [] handler = "lurefield"      -> "Failed to send honeypot event"

\* mpsc::Sender::send: an error once the receiver is gone, pending while the
\* channel is full, queued otherwise
send(channel, event) ==
    IF channel.closed
    THEN [tag |-> "Err", channel |-> channel]
    ELSE IF Len(channel.queue) >= ChannelCapacity
    THEN [tag |-> "Pending", channel |-> channel]
    ELSE [tag |-> "Ok", channel |-> [channel EXCEPT !.queue = Append(@, event)]]

\* AdaptiveHandler::handle_event with the result of the send thrown away
AdaptiveHandler_handle_event_ErrorIgnored(handler, event, channel, now) ==
    IF event.event_type \in Relevant(handler)
    THEN LET sent == send(channel, Derived(handler, event, now))
         IN  [tag |-> IF sent.tag = "Pending" THEN "Pending" ELSE "Ok",
              cause |-> "", channel |-> sent.channel]
    ELSE [tag |-> "Ok", cause |-> "", channel |-> channel]

\* AdaptiveHandler::handle_event of the three handlers: a relevant event is
\* converted and sent, and a failed send is returned as ProcessingFailed
AdaptiveHandler_handle_event(handler, event, channel, now) ==
    IF event.event_type \in Relevant(handler)
    THEN LET sent == send(channel, Derived(handler, event, now))
         IN  IF sent.tag = "Err"
             THEN [tag |-> "ProcessingFailed", cause |-> SendFailure(handler),
                   channel |-> channel]
             ELSE [tag |-> sent.tag, cause |-> "", channel |-> sent.channel]
    ELSE [tag |-> "Ok", cause |-> "", channel |-> channel]

(***************************************************************************)
(* AdaptiveEngine: the registry of named handlers and process_event, which *)
(* records the event and hands it to the handlers one after the other.     *)
(* Specification SpecDispatch: handlers are registered, receivers read or  *)
(* go away, and up to MaxDispatches events are dispatched, one handler     *)
(* call per step.                                                          *)
(***************************************************************************)
SignalCap == 1000

SignalKinds == {"SecurityAlert", "SystemChange", "Custom"}

severity_score(sev) ==
    CASE sev = "Critical" -> 10
      [] sev = "High"     -> 8
      [] sev = "Medium"   -> 5
      [] sev = "Low"      -> 3
      [] sev = "Info"     -> 1

\* the AdaptiveEvent made from an Event
AdaptiveEvent(event) ==
    [ source     |-> event.source,
      event_type |-> event.event_type,
      severity   |-> severity_score(severity(event.event_type)),
      data       |-> event.data,
      timestamp  |-> event.timestamp ]

\* the history with one more event, cut to its most recent SignalCap entries
PushSignal(history, event) ==
    LET pushed == Append(history, event)
    IN  IF Len(pushed) > SignalCap
        THEN SubSeq(pushed, Len(pushed) - SignalCap + 1, Len(pushed))
        ELSE pushed

Registered(name) == \E i \in 1..Len(registry) : registry[i] = name

\* register_handler: a new name goes last, a known name keeps its place
RegisterHandler ==
    \E name \in HandlerNames :
        /\ registry' = IF Registered(name) THEN registry ELSE Append(registry, name)
        /\ channels' = IF name \in DOMAIN channels THEN channels
                       ELSE [k \in DOMAIN channels \cup {name} |->
                               IF k = name THEN NewChannel ELSE channels[k]]
        /\ UNCHANGED <<coreVars, gateVars, concVars, mockVars, peVars, handleVars, lureVars, signals, dispatch>>

\* the receiving side of a handler's channel takes the oldest event
Recv ==
    \E name \in DOMAIN channels :
        /\ ~channels[name].closed
        /\ Len(channels[name].queue) > 0
        /\ channels' = [channels EXCEPT ![name].queue = Tail(@)]
        /\ UNCHANGED <<coreVars, gateVars, concVars, mockVars, peVars, handleVars, lureVars, registry, signals, dispatch>>

\* the receiving side of a handler's channel is dropped
DropReceiver ==
    \E name \in DOMAIN channels :
        /\ ~channels[name].closed
        /\ channels' = [channels EXCEPT ![name].closed = TRUE]
        /\ UNCHANGED <<coreVars, gateVars, concVars, mockVars, peVars, handleVars, lureVars, registry, signals, dispatch>>

\* process_event begins: the event is converted and recorded, and the
\* handlers registered now are the ones this call will go through
ProcessEvent ==
    \E kind \in SignalKinds, source \in Sources :
        LET event == AdaptiveEvent(Event(clock, kind, source, None))
        IN  /\ dispatch.phase # "running"
            /\ calls < MaxDispatches
            /\ calls' = calls + 1
            /\ signals' = PushSignal(signals, event)
            /\ dispatch' = [phase |-> "running", event |-> Some(event),
                            snapshot |-> registry, next |-> 1, log |-> <<>>,
                            result |-> [tag |-> "None", handler |-> "", cause |-> ""]]
            /\ UNCHANGED <<state, threshold, clock, last, events, counters,
                           gateVars, concVars, mockVars, peVars, handleVars, lureVars, registry, channels>>

\* process_event calls the next handler; a failure ends the call with
\* ProcessingFailed naming the handler
InvokeHandler ==
    /\ dispatch.phase = "running"
    /\ dispatch.next <= Len(dispatch.snapshot)
    /\ LET name  == dispatch.snapshot[dispatch.next]
           r     == AdaptiveHandler_handle_event(name, dispatch.event[1],
                                                 channels[name], clock)
           entry == [name |-> name, closed |-> channels[name].closed]
       IN  /\ r.tag # "Pending"
           /\ channels' = [channels EXCEPT ![name] = r.channel]
           /\ dispatch' =
                IF r.tag = "Ok"
                THEN [dispatch EXCEPT !.next = @ + 1, !.log = Append(@, entry)]
                ELSE [dispatch EXCEPT !.log = Append(@, entry),
                                      !.phase = "returned",
                                      !.result = [tag |-> "ProcessingFailed",
                                                  handler |-> name, cause |-> r.cause]]
    /\ UNCHANGED <<coreVars, gateVars, concVars, mockVars, peVars, handleVars, lureVars, registry, signals>>

\* process_event returns Ok once every handler has been called
ProcessEventOk ==
    /\ dispatch.phase = "running"
    /\ dispatch.next > Len(dispatch.snapshot)
    /\ dispatch' = [dispatch EXCEPT !.phase = "returned",
                                    !.result = [tag |-> "Ok", handler |-> "", cause |-> ""]]
    /\ UNCHANGED <<coreVars, gateVars, concVars, mockVars, peVars, handleVars, lureVars, registry, channels, signals>>

NextDispatch ==
    \/ RegisterHandler
    \/ Recv
    \/ DropReceiver
    \/ ProcessEvent
    \/ InvokeHandler
    \/ ProcessEventOk

SpecDispatch == Init /\ [][NextDispatch]_vars

\* the i-th handler called in this dispatch was given an event it reacts to
\* while the receiver of its channel was gone
FailedAt(i) ==
    /\ dispatch.log[i].closed
    /\ dispatch.event[1].event_type \in Relevant(dispatch.log[i].name)

MockNames == {"test", "first", "second"}

\* MockAdaptiveHandler::new, with the Mutex the test wraps it in
MockAdaptiveHandler_new == [events_processed |-> 0, busy |-> FALSE]

\* MockAdaptiveHandler::handle_event forgetting to count
MockAdaptiveHandler_handle_event_NoCount(handler) ==
    [handler |-> handler, tag |-> "Ok"]

\* MockAdaptiveHandler::handle_event: events_processed += 1; Ok(())
MockAdaptiveHandler_handle_event(handler) ==
    [handler |-> [handler EXCEPT !.events_processed = @ + 1], tag |-> "Ok"]

\* register_handler with a mock: one more handler object, bound to the name
RegisterMock ==
    \E name \in MockNames :
        LET id == Len(mocks) + 1
        IN  /\ Len(mocks) < MaxHandlers
            /\ mocks' = Append(mocks, MockAdaptiveHandler_new)
            /\ registry' =
                 IF \E i \in 1..Len(registry) : registry[i].name = name
                 THEN [i \in 1..Len(registry) |->
                         IF registry[i].name = name
                         THEN [name |-> name, handler |-> id] ELSE registry[i]]
                 ELSE Append(registry, [name |-> name, handler |-> id])
            /\ UNCHANGED <<coreVars, gateVars, concVars, peVars, handleVars, lureVars, channels, signals, dispatch>>

\* process_event begins: the event is recorded and the handlers registered now
\* are the ones to call; seen is what each of them had counted so far
BeginProcessEvent ==
    \E kind \in SignalKinds, source \in Sources :
        LET event == AdaptiveEvent(Event(clock, kind, source, None))
        IN  /\ dispatch.phase \in {"idle", "returned"}
            /\ calls < MaxDispatches
            /\ calls' = calls + 1
            /\ signals' = PushSignal(signals, event)
            /\ dispatch' = [phase |-> "running", event |-> Some(event),
                            snapshot |-> [i \in 1..Len(registry) |->
                               [name |-> registry[i].name,
                                handler |-> registry[i].handler,
                                seen |-> mocks[registry[i].handler].events_processed]],
                            next |-> 1, log |-> <<>>,
                            result |-> [tag |-> "None", handler |-> "", cause |-> ""]]
            /\ UNCHANGED <<state, threshold, clock, last, events, counters,
                           gateVars, concVars, mockVars, peVars, handleVars, lureVars, registry, channels>>

\* process_event locks the next handler and calls its handle_event
EnterHandler ==
    /\ dispatch.phase = "running"
    /\ dispatch.next <= Len(dispatch.snapshot)
    /\ LET h == dispatch.snapshot[dispatch.next].handler
       IN  /\ ~mocks[h].busy
           /\ mocks' = [mocks EXCEPT ![h].busy = TRUE]
    /\ dispatch' = [dispatch EXCEPT !.phase = "calling"]
    /\ UNCHANGED <<coreVars, gateVars, concVars, peVars, handleVars, lureVars, registry, channels, signals>>

\* the handler returns and is unlocked; process_event goes on to the next one
LeaveHandler ==
    /\ dispatch.phase = "calling"
    /\ LET entry == dispatch.snapshot[dispatch.next]
           r     == MockAdaptiveHandler_handle_event(mocks[entry.handler])
       IN  /\ mocks' = [mocks EXCEPT ![entry.handler] = [r.handler EXCEPT !.busy = FALSE]]
           /\ dispatch' =
                IF r.tag = "Ok"
                THEN [dispatch EXCEPT !.phase = "running", !.next = @ + 1,
                                      !.log = Append(@, entry.handler)]
                ELSE [dispatch EXCEPT !.phase = "returned",
                                      !.log = Append(@, entry.handler),
                                      !.result = [tag |-> "ProcessingFailed",
                                                  handler |-> entry.name, cause |-> ""]]
    /\ UNCHANGED <<coreVars, gateVars, concVars, peVars, handleVars, lureVars, registry, channels, signals>>

\* process_event returns Ok once every handler has been called
EndProcessEvent ==
    /\ dispatch.phase = "running"
    /\ dispatch.next > Len(dispatch.snapshot)
    /\ dispatch' = [dispatch EXCEPT !.phase = "returned",
                                    !.result = [tag |-> "Ok", handler |-> "", cause |-> ""]]
    /\ UNCHANGED <<coreVars, gateVars, concVars, mockVars, peVars, handleVars, lureVars, registry, channels, signals>>

NextEngine ==
    \/ RegisterMock
    \/ BeginProcessEvent
    \/ EnterHandler
    \/ LeaveHandler
    \/ EndProcessEvent

SpecEngine == Init /\ [][NextEngine]_vars

Busy == {h \in 1..Len(mocks) : mocks[h].busy}

to_str(posture) ==
    CASE posture = "Silent"    -> "silent"
      [] posture = "Neutral"   -> "neutral"
      [] posture = "Mimetic"   -> "mimetic"
      [] posture = "Fulgurant" -> "fulgurant"
      [] posture = "Unstable"  -> "unstable"

\* str::to_lowercase on the strings that occur
to_lowercase(str) ==
    CASE str = "Silent"    -> "silent"
      [] str = "Neutral"   -> "neutral"
      [] str = "Mimetic"   -> "mimetic"
      [] str = "Fulgurant" -> "fulgurant"
      [] str = "Unstable"  -> "unstable"
      [] OTHER             -> str

\* chame_core's Posture::from_str
Posture_from_str(str) ==
    LET lower == to_lowercase(str)
    IN  CASE lower = "silent"    -> Some("Silent")
          [] lower = "neutral"   -> Some("Neutral")
          [] lower = "mimetic"   -> Some("Mimetic")
          [] lower = "fulgurant" -> Some("Fulgurant")
          [] lower = "unstable"  -> Some("Unstable")
          [] OTHER               -> None

\* set_posture up to its send: the check against the allowed list, the two
\* writes, and the event to send
set_posture(p, posture, now) ==
    IF posture \notin p.config.postures
    THEN [pe |-> p, tag |-> "Err", event |-> None]
    ELSE [pe    |-> [p EXCEPT !.current_posture = posture,
                              !.posture_history = Append(@, <<posture, now>>)],
          tag   |-> "Ok",
          event |-> Some(Event(now, "PostureChange", "posture_engine",
                               Some([posture |-> to_str(posture), timestamp |-> now])))]

\* the end of set_posture: the event is sent, a failed send is logged, Ok(())
announce(channel, event) ==
    LET sent == send(channel, event)
    IN  [tag     |-> IF sent.tag = "Pending" THEN "Pending" ELSE "Ok",
         sent    |-> sent.tag = "Ok",
         channel |-> sent.channel]

CountSeverity(slice, sev) ==
    Cardinality({i \in 1..Len(slice) : severity(slice[i].event_type) = sev})

\* threat_level without the division by the length of the slice
threat_level_Unaveraged(slice) ==
    IF Len(slice) = 0 THEN F0_0
    ELSE LET critical_count == CountSeverity(slice, "Critical")
             high_count     == CountSeverity(slice, "High")
             medium_count   == CountSeverity(slice, "Medium")
             weighted_sum   == F64Add(F64Add(F64Mul(F64OfCount(critical_count), F1_0),
                                             F64Mul(F64OfCount(high_count), F0_7)),
                                      F64Mul(F64OfCount(medium_count), F0_3))
         IN  F64Min(weighted_sum, F1_0)

\* the threat level evaluate_events computes from a slice of events
threat_level(slice) ==
    IF Len(slice) = 0 THEN F0_0
    ELSE LET critical_count == CountSeverity(slice, "Critical")
             high_count     == CountSeverity(slice, "High")
             medium_count   == CountSeverity(slice, "Medium")
             weighted_sum   == F64Add(F64Add(F64Mul(F64OfCount(critical_count), F1_0),
                                             F64Mul(F64OfCount(high_count), F0_7)),
                                      F64Mul(F64OfCount(medium_count), F0_3))
             max_possible   == F64OfCount(Len(slice))
         IN  F64Min(F64Div(weighted_sum, max_possible), F1_0)

\* determine_best_posture with the two postures of the highest band exchanged
determine_best_posture_AlertGivesUnstable(threat, slice) ==
    IF F64Ge(threat, F0_9)
    THEN IF \E i \in 1..Len(slice) : slice[i].event_type = "SecurityAlert"
         THEN "Unstable" ELSE "Fulgurant"
    ELSE IF F64Ge(threat, F0_6) THEN "Mimetic"
    ELSE IF F64Ge(threat, F0_3) THEN "Neutral"
    ELSE "Silent"

determine_best_posture(threat, slice) ==
    IF F64Ge(threat, F0_9)
    THEN IF \E i \in 1..Len(slice) : slice[i].event_type = "SecurityAlert"
         THEN "Fulgurant" ELSE "Unstable"
    ELSE IF F64Ge(threat, F0_6) THEN "Mimetic"
    ELSE IF F64Ge(threat, F0_3) THEN "Neutral"
    ELSE "Silent"

\* evaluate_events up to the send of the set_posture it may call
evaluate_events(p, slice, now) ==
    LET threat      == threat_level(slice)
        new_posture == determine_best_posture(threat, slice)
        no_change   == [pe |-> p, tag |-> "Ok", value |-> FALSE, event |-> None,
                        threat |-> threat]
    IN  IF F64Ge(threat, p.config.change_threshold)
        THEN IF p.current_posture # new_posture
             THEN LET set == set_posture(p, new_posture, now)
                  IN  [pe |-> set.pe, tag |-> set.tag, value |-> set.tag = "Ok",
                       event |-> set.event, threat |-> threat]
             ELSE no_change
        ELSE no_change

\* SkinshiftService::handle_event: the posture it tracks afterwards, and whether
\* the event gave it one
skinshift_handle_event(current_posture, event) ==
    LET ignored == [current_posture |-> current_posture, applied |-> FALSE]
    IN  IF event.event_type = "PostureChange"
        THEN IF event.data # None
             THEN IF "new_posture" \in DOMAIN event.data[1]
                  THEN LET posture == Posture_from_str(event.data[1].new_posture)
                       IN  IF posture # None
                           THEN [current_posture |-> posture[1], applied |-> TRUE]
                           ELSE ignored
                  ELSE ignored
             ELSE ignored
        ELSE ignored

ChangeThresholds == {F0_0, F0_3, F0_75}

PostureLists == {Posture, Posture \ {"Mimetic"}}

Configs == [change_threshold : ChangeThresholds, postures : PostureLists]

SliceKinds == {"SecurityAlert", "SystemChange", "NetworkActivity"}

Slices ==
    UNION {{[i \in 1..n |-> Event(0, kinds[i], "eye360", None)] :
              kinds \in [1..n -> SliceKinds]} : n \in 0..MaxSlice}

InitPosture ==
    /\ CoreNew /\ GateUnused /\ TasksUnused /\ EngineNew
    /\ pe \in {PostureEngine_new(config) : config \in Configs}

PostureCounted ==
    /\ pe.pending = None
    /\ calls < MaxPostureCalls
    /\ calls' = calls + 1
    /\ UNCHANGED <<state, threshold, clock, last, events, counters,
                   gateVars, concVars, dispatchVars, mockVars, handleVars, lureVars>>

SetPosture ==
    \E posture \in Posture :
        LET r == set_posture(pe, posture, clock)
        IN  /\ PostureCounted
            /\ pe' = [r.pe EXCEPT
                        !.pending = r.event,
                        !.ret = Returned("set_posture",
                                         IF r.tag = "Ok" THEN "Pending" ELSE "Err",
                                         FALSE, FALSE, pe.current_posture,
                                         Len(pe.posture_history), F0_0, <<>>)]

EvaluateEvents ==
    \E slice \in Slices :
        LET r == evaluate_events(pe, slice, clock)
        IN  /\ PostureCounted
            /\ pe' = [r.pe EXCEPT
                        !.pending = r.event,
                        !.ret = Returned("evaluate_events",
                                         IF r.event # None THEN "Pending" ELSE r.tag,
                                         r.value, FALSE, pe.current_posture,
                                         Len(pe.posture_history), r.threat, slice)]

\* the send inside set_posture completes, and the call returns
SendPostureEvent ==
    /\ pe.pending # None
    /\ LET a == announce(pe.event_sender, pe.pending[1])
       IN  /\ a.tag # "Pending"
           /\ pe' = [pe EXCEPT !.event_sender = a.channel,
                               !.pending = None,
                               !.ret = [@ EXCEPT !.tag = a.tag, !.sent = a.sent]]
    /\ UNCHANGED <<coreVars, gateVars, concVars, dispatchVars, mockVars, handleVars, lureVars>>

\* the receiving side takes the oldest event and hands it to the subscriber
SubscriberReceive ==
    /\ ~pe.event_sender.closed
    /\ Len(pe.event_sender.queue) > 0
    /\ LET event == Head(pe.event_sender.queue)
           r     == skinshift_handle_event(pe.subscriber, event)
       IN  pe' = [pe EXCEPT
                    !.event_sender = [@ EXCEPT !.queue = Tail(@)],
                    !.subscriber = r.current_posture,
                    !.delivered = IF event.event_type = "PostureChange" THEN @ + 1 ELSE @,
                    !.observed = IF r.applied THEN @ + 1 ELSE @]
    /\ UNCHANGED <<coreVars, gateVars, concVars, dispatchVars, mockVars, handleVars, lureVars>>

\* the receiving side of the engine's channel is dropped
DropSubscriber ==
    /\ ~pe.event_sender.closed
    /\ pe' = [pe EXCEPT !.event_sender = [@ EXCEPT !.closed = TRUE]]
    /\ UNCHANGED <<coreVars, gateVars, concVars, dispatchVars, mockVars, handleVars, lureVars>>

NextPosture ==
    \/ SetPosture
    \/ EvaluateEvents
    \/ SendPostureEvent
    \/ SubscriberReceive
    \/ DropSubscriber

SpecPosture == InitPosture /\ [][NextPosture]_vars

\* C12: every PostureChange event on the engine's channel carries old_posture
\* and new_posture, and the subscriber, which reads new_posture, has taken a
\* posture from every PostureChange event it was handed.
C12_PostureChangeCarriesOldAndNew ==
    /\ \A i \in 1..Len(pe.event_sender.queue) :
         LET event == pe.event_sender.queue[i]
         IN  event.event_type = "PostureChange" =>
               /\ event.data # None
               /\ {"old_posture", "new_posture"} \subseteq DOMAIN event.data[1]
    /\ pe.observed = pe.delivered

\* C13: a set_posture that returned Ok, directly or inside an evaluate_events
\* that returned true, has put its event on the channel.
C13_NoSilentDrop ==
    (pe.ret.tag = "Ok" /\ (pe.ret.op = "set_posture" \/ pe.ret.value)) => pe.ret.sent

\* C16: evaluate_events never returns an error, under any configuration.
C16_DecisionsNeverFail ==
    pe.ret.op = "evaluate_events" => pe.ret.tag # "Err"

\* the kinds of the events of a slice, in order
KindsOf(slice) == [i \in 1..Len(slice) |-> slice[i].event_type]

\* C17: an evaluate_events call that has returned computed the threat
\* min(1.0, (critical*1.0 + high*0.7 + medium*0.3) / len) of its slice (0.0 for
\* an empty slice; 0.7 for one SecurityAlert, 0.3 for one SystemChange, 0.5 for
\* one of each, 0.0 for one NetworkActivity), and it returned true, with the best
\* posture committed and one more history entry, exactly when that threat was
\* at least change_threshold and the best posture differed from the current
\* one; otherwise it returned false and left posture and history as they were.
C17_WindowedEvaluation ==
    LET r      == pe.ret
        best   == determine_best_posture(r.threat, r.events)
        change == F64Ge(r.threat, pe.config.change_threshold) /\ best # r.before
    IN  (r.op = "evaluate_events" /\ r.tag # "Pending") =>
          /\ r.events = <<>> => r.threat = F0_0
          /\ KindsOf(r.events) = <<"SecurityAlert">> => r.threat = F0_7
          /\ KindsOf(r.events) = <<"SystemChange">> => r.threat = F0_3
          /\ KindsOf(r.events) = <<"NetworkActivity">> => r.threat = F0_0
          /\ KindsOf(r.events) = <<"SecurityAlert", "SystemChange">> => r.threat = F0_5
          /\ r.tag = "Ok"
          /\ r.value = change
          /\ change => /\ pe.current_posture = best
                       /\ Len(pe.posture_history) = r.history_before + 1
                       /\ pe.posture_history[Len(pe.posture_history)][1] = best
          /\ ~change => /\ pe.current_posture = r.before
                        /\ Len(pe.posture_history) = r.history_before

(***************************************************************************)
(* ChameleonCore::handle_event step by step.  Specification SpecHandle:    *)
(* up to MaxCoreCalls events are handled one after the other; recording    *)
(* the event and matching on its type are separate steps, and time may     *)
(* pass in between.                                                        *)
(***************************************************************************)
\* self.metrics.record_event(&event).await?  (record_event only returns Ok)
HandleRecord ==
    \E event_type \in EventType, source \in Sources :
        LET event == Event(clock, event_type, source, None)
            m     == record_event(events, counters, event)
        IN  /\ handling = None
            /\ calls < MaxCoreCalls
            /\ calls' = calls + 1
            /\ events' = m.events
            /\ counters' = m.counters
            /\ handling' = Some(event)
            /\ UNCHANGED <<state, threshold, clock, last,
                           gateVars, concVars, dispatchVars, mockVars, peVars, lureVars>>

\* match event.event_type { .. }; Ok(())
HandleMatch ==
    /\ handling # None
    /\ state' = handle_event_match(state, threshold, handling[1], clock)
    /\ last' = Call("handle_event", handling[1].event_type, state.current_posture,
                    state.threat_level, clock, TRUE)
    /\ handling' = None
    /\ UNCHANGED <<threshold, clock, events, counters, calls,
                   gateVars, concVars, dispatchVars, mockVars, peVars, lureVars>>

NextHandle == Tick \/ HandleRecord \/ HandleMatch

SpecHandle == Init /\ [][NextHandle]_vars

\* C14: whenever a step of handle_event changes the threat level or the posture,
\* the event it is handling is already in the metrics history, and that step
\* does no recording of its own; no state change happens outside such a step.
C14_RecordedBeforeDecided ==
    [][state' # state =>
         /\ handling # None
         /\ \E i \in 1..Len(events) : events[i] = handling[1]
         /\ events' = events]_vars

\* a SecurityAlert has been handled: it is in the history and has raised the threat
C14_Witness ==
    /\ handling = None
    /\ last.op = "handle_event"
    /\ last.arg = "SecurityAlert"
    /\ last.old_threat = F0_0
    /\ state.threat_level = F0_2
    /\ Len(events) = 1
    /\ events[1].event_type = "SecurityAlert"

\* C15: a set_threshold call whose argument is outside [0, 1] leaves the
\* configured threshold as it was.
C15_OutOfRangeThresholdRejected ==
    [][(last'.op = "set_threshold"
          /\ (F64Lt(last'.arg, F0_0) \/ F64Gt(last'.arg, F1_0)))
        => threshold' = threshold]_vars

(***************************************************************************)
(* Event::severity as a function of the whole event.  Specification        *)
(* SpecSeverity: an event of any kind, source, payload and timestamp is    *)
(* built, and severity() is called on it.                                  *)
(***************************************************************************)
SeverityKinds == EventType \cup CustomKinds

Payloads == {None, Some([alert |-> "Test alert"])}

SeveritySources == {"eye360", "test"}

InitSeverity ==
    /\ state = NewState /\ threshold = DefaultThreshold /\ clock = 0
    /\ last = NoCall /\ MetricsNew /\ calls = 0
    /\ GateUnused /\ TasksUnused /\ EngineNew /\ PostureEngineNew
    /\ LurefieldUnused
    /\ handling \in {Some(Event(timestamp, event_type, source, data)) :
                        timestamp \in 0..MaxClock, event_type \in SeverityKinds,
                        source \in SeveritySources, data \in Payloads}

\* event.severity()
Severity ==
    /\ last.op # "severity"
    /\ last' = Call("severity", handling[1], state.current_posture, state.threat_level,
                    clock, severity(handling[1].event_type))
    /\ UNCHANGED <<state, threshold, clock, events, counters, calls, apart>>

NextSeverity == Severity

SpecSeverity == InitSeverity /\ [][NextSeverity]_vars

\* C18: severity() of an event is High for SecurityAlert, Medium for
\* PostureChange, SystemChange and HoneypotActivity, Low for FingerprintChange
\* and ServiceLifecycle, Info for NetworkActivity, MetricsReport and every
\* Custom(name), whatever the source, the payload and the timestamp.
C18_SeverityByKind ==
    last.op = "severity" =>
      LET kind == last.arg.event_type
      IN  last.ret =
            IF kind = "SecurityAlert" THEN "High"
            ELSE IF kind \in {"PostureChange", "SystemChange", "HoneypotActivity"}
                 THEN "Medium"
            ELSE IF kind \in {"FingerprintChange", "ServiceLifecycle"} THEN "Low"
            ELSE "Info"

\* severity() has been called on a SecurityAlert that carries a payload
C18_Witness ==
    /\ last.op = "severity"
    /\ last.arg.event_type = "SecurityAlert"
    /\ last.arg.data # None
    /\ last.arg.source = "test"
    /\ last.ret = "High"

(***************************************************************************)
(* MetricsCollector::get_metrics.  Specification SpecQuery: events of a    *)
(* few kinds and sources are recorded while time passes, and the history   *)
(* is queried over every range of the clock, inverted ranges included; up  *)
(* to MaxCoreCalls calls in all.                                           *)
(***************************************************************************)
\* one of the report's groups: keys holds the key of each event found, and
\* every key that occurs is counted (*counts.entry(key).or_insert(0) += 1)
CountsBy(keys) ==
    [k \in {keys[i] : i \in 1..Len(keys)} |->
        Cardinality({i \in 1..Len(keys) : keys[i] = k})]

\* get_metrics with the until of the range left out
get_metrics_EndExclusive(evs, ctrs, since, until) ==
    LET in_range(e) == e.timestamp >= since /\ e.timestamp < until
        found       == SelectSeq(evs, in_range)
    IN  [ time_range   |-> [start |-> since, end |-> until, duration_seconds |-> until - since],
          event_counts |-> [ total       |-> Len(found),
                             by_type     |-> CountsBy([i \in 1..Len(found) |-> found[i].event_type]),
                             by_source   |-> CountsBy([i \in 1..Len(found) |-> found[i].source]),
                             by_severity |-> CountsBy([i \in 1..Len(found) |-> severity(found[i].event_type)]) ],
          counters     |-> ctrs ]

\* the report of get_metrics (gauges and time series are never written here
\* and stay empty)
get_metrics(evs, ctrs, since, until) ==
    LET in_range(e) == e.timestamp >= since /\ e.timestamp <= until
        found       == SelectSeq(evs, in_range)
    IN  [ time_range   |-> [start |-> since, end |-> until, duration_seconds |-> until - since],
          event_counts |-> [ total       |-> Len(found),
                             by_type     |-> CountsBy([i \in 1..Len(found) |-> found[i].event_type]),
                             by_source   |-> CountsBy([i \in 1..Len(found) |-> found[i].source]),
                             by_severity |-> CountsBy([i \in 1..Len(found) |-> severity(found[i].event_type)]) ],
          counters     |-> ctrs ]

QueryKinds == {"SecurityAlert", "SystemChange", "NetworkActivity"}

QuerySources == {"eye360", "test"}

QueryRecord ==
    \E event_type \in QueryKinds, source \in QuerySources :
        LET m == record_event(events, counters, Event(clock, event_type, source, None))
        IN  /\ events' = m.events
            /\ counters' = m.counters
            /\ last' = Call("record_event", event_type, state.current_posture,
                            state.threat_level, clock, TRUE)
            /\ UNCHANGED state
            /\ CoreCounted

GetMetrics ==
    \E since \in 0..MaxClock, until \in 0..MaxClock :
        /\ last' = Call("get_metrics", <<since, until>>, state.current_posture,
                        state.threat_level, clock,
                        get_metrics(events, counters, since, until))
        /\ UNCHANGED <<state, events, counters>>
        /\ CoreCounted

NextQuery == Tick \/ QueryRecord \/ GetMetrics

SpecQuery == Init /\ [][NextQuery]_vars

\* the events of the history whose timestamp is in [since, until]
InRange(since, until) ==
    {i \in 1..Len(events) : events[i].timestamp >= since /\ events[i].timestamp <= until}

RECURSIVE SumOf(_)
SumOf(f) ==
    IF DOMAIN f = {} THEN 0
    ELSE LET k == CHOOSE x \in DOMAIN f : TRUE
         IN  f[k] + SumOf([x \in DOMAIN f \ {k} |-> f[x]])

\* C19: the report of get_metrics(start, end) counts exactly the events of the
\* history with start <= timestamp <= end: that many in total, and per kind, per
\* source and per severity the events of that kind, source or severity among
\* them, so each of the three groups sums to the total; an inverted range gives
\* zero; the counters are reported as they are; and the call leaves history and
\* counters as they were.
C19_QueryCountsTheRange ==
    /\ [](last.op = "get_metrics" =>
            LET since == last.arg[1]
                until   == last.arg[2]
                c     == last.ret.event_counts
            IN  /\ c.total = Cardinality(InRange(since, until))
                /\ \A k \in QueryKinds :
                     Cardinality({i \in InRange(since, until) : events[i].event_type = k})
                       = IF k \in DOMAIN c.by_type THEN c.by_type[k] ELSE 0
                /\ \A k \in QuerySources :
                     Cardinality({i \in InRange(since, until) : events[i].source = k})
                       = IF k \in DOMAIN c.by_source THEN c.by_source[k] ELSE 0
                /\ SumOf(c.by_type) = c.total
                /\ SumOf(c.by_source) = c.total
                /\ SumOf(c.by_severity) = c.total
                /\ since > until => c.total = 0
                /\ last.ret.counters = counters)
    /\ [][(last'.op = "get_metrics" /\ calls' # calls)
            => (events' = events /\ counters' = counters)]_vars

\* a query whose range ends on the timestamp of a recorded event, which it counts,
\* while an earlier event is left out
C19_Witness ==
    /\ last.op = "get_metrics"
    /\ last.arg = <<1, 1>>
    /\ Len(events) = 2
    /\ events[1].timestamp = 0
    /\ events[2].timestamp = 1
    /\ last.ret.event_counts.total = 1

\* the three counters record_event writes for the events of SpecMetrics
RecordedKeys ==
    {{<<"event_count_", "MetricsReport">>, <<"event_source_", s>>, <<"severity_", "Info">>} :
        s \in Sources}

\* C20 (SpecMetrics): after n record_event calls, whether or not n exceeds the
\* history cap, the counters of the kind, of the source and of the severity of
\* the recorded events each read n, no other counter has been written, and a
\* counter that was never written reads 0.
C20_CountersCountEveryRecord ==
    /\ \E keys \in RecordedKeys :
         /\ DOMAIN counters \subseteq keys
         /\ \A key \in keys : get_counter(counters, key) = calls
    /\ get_counter(counters, <<"event_count_", "SecurityAlert">>) = 0
    /\ get_counter(counters, <<"severity_", "High">>) = 0

\* more events have been recorded than the history keeps, and all are counted
C20_Witness ==
    /\ calls = HistoryCap + 2
    /\ Len(events) = HistoryCap
    /\ get_counter(counters, <<"event_count_", "MetricsReport">>) = HistoryCap + 2
    /\ get_counter(counters, <<"severity_", "Info">>) = HistoryCap + 2

(***************************************************************************)
(* Claims about the bookkeeping of services, honeypots and fingerprints    *)
(* (SpecState, SpecBook).                                                  *)
(***************************************************************************)
\* C21: the ids in active_honeypots are pairwise distinct, and a
\* remove_honeypot(id) leaves no honeypot with that id in the list.
C21_HoneypotIdsUnique ==
    LET honeypots == state.active_honeypots
    IN  /\ \A i, j \in 1..Len(honeypots) : i # j => honeypots[i].id # honeypots[j].id
        /\ last.op = "remove_honeypot" =>
               \A i \in 1..Len(honeypots) : honeypots[i].id # last.arg

(***************************************************************************)
(* SpecBook: the bookkeeping methods of the state called between the       *)
(* operations that write its other fields (init, start, stop,              *)
(* force_posture, increase_threat_level).                                  *)
(***************************************************************************)
NextBook ==
    \/ Tick
    \/ AddService
    \/ RemoveService
    \/ AddHoneypot
    \/ RemoveHoneypot
    \/ SetFingerprint
    \/ ClearFingerprint
    \/ IncreaseThreatLevel
    \/ CoreForcePosture
    \/ CoreInit
    \/ CoreStart
    \/ CoreStop

SpecBook == Init /\ [][NextBook]_vars

Bookkeeping ==
    {"add_service", "remove_service", "add_honeypot", "remove_honeypot",
     "set_fingerprint", "clear_fingerprint"}

\* the step is the call named by last'
CallStep == calls' = calls + 1

\* C22: add_service, remove_service, add_honeypot, remove_honeypot,
\* set_fingerprint and clear_fingerprint never change current_posture,
\* threat_level, last_posture_change or status; removing a service name or a
\* honeypot id that is not present returns None and leaves the whole state
\* unchanged.
C22_BookkeepingFrame ==
    [][(CallStep /\ last'.op \in Bookkeeping) =>
          /\ state'.current_posture = state.current_posture
          /\ state'.threat_level = state.threat_level
          /\ state'.last_posture_change = state.last_posture_change
          /\ state'.status = state.status
          /\ (/\ last'.op = "remove_service"
              /\ last'.arg \notin DOMAIN state.active_services) =>
                 last'.ret = None /\ state' = state
          /\ (/\ last'.op = "remove_honeypot"
              /\ \A i \in 1..Len(state.active_honeypots) :
                     state.active_honeypots[i].id # last'.arg) =>
                 last'.ret = None /\ state' = state]_vars

\* remove_honeypot of an absent id on a started service whose posture was
\* forced, with another honeypot in the list
C22_Witness ==
    /\ last.op = "remove_honeypot"
    /\ last.ret = None
    /\ Len(state.active_honeypots) = 1
    /\ state.status = "Running"
    /\ state.current_posture = "Fulgurant"
    /\ state.last_posture_change # None

(***************************************************************************)
(* Claims about the service lifecycle (SpecCore).                          *)
(***************************************************************************)
\* C23: under any sequence of init, start and stop calls the status follows
\* the lifecycle: Running is entered only from Ready and Stopped only from a
\* started service, so start on a Created or Stopped service does not produce
\* Running and stop on a service that never started does not produce Stopped.
C23_StatusFollowsLifecycle ==
    [][/\ (state'.status = "Running" /\ state.status # "Running") =>
              state.status = "Ready"
       /\ (state'.status = "Stopped" /\ state.status # "Stopped") =>
              state.status \in {"Running", "Paused"}
       /\ (state'.status = "Ready" /\ state.status # "Ready") =>
              state.status = "Created"]_vars

(***************************************************************************)
(* Claims about what one evaluate_posture_change call commits (Spec).      *)
(***************************************************************************)
\* the step is an evaluate_posture_change call; a call that repeats the one
\* before it on the same state writes nothing and is a stuttering step
EvaluateStep == last' # last /\ last'.op = "evaluate_posture_change"

\* the amount the match on the severity of an event adds
Increase(event_type) ==
    LET sev == severity(event_type)
    IN  CASE sev = "Critical" -> F0_4
          [] sev = "High"     -> F0_2
          [] sev = "Medium"   -> F0_1
          [] sev = "Low"      -> F0_05
          [] sev = "Info"     -> F0_0

\* C24: evaluate_posture_change returns true if and only if it changed
\* current_posture; when the posture proposed for the raised threat level
\* differs from the current one and the gate refuses it, the call returns
\* false, current_posture and last_posture_change are unchanged and the
\* raised threat level is committed all the same.
C24_RefusedChangeKeepsThreat ==
    [][EvaluateStep =>
          /\ last'.ret <=> (state'.current_posture # state.current_posture)
          /\ state'.threat_level =
                 F64Min(F64Add(state.threat_level, Increase(last'.arg)), F1_0)
          /\ ~last'.ret =>
                 /\ state'.current_posture = state.current_posture
                 /\ state'.last_posture_change = state.last_posture_change
          /\ last'.ret =>
                 /\ state'.current_posture = determine_optimal_posture(state'.threat_level)
                 /\ state'.last_posture_change = Some(clock)]_vars

\* a High-severity event on a fresh state: Silent is proposed at 0.2, the gate
\* refuses it, and the threat level stays raised
C24_Witness ==
    /\ last.op = "evaluate_posture_change"
    /\ ~last.ret
    /\ last.old_threat = F0_0
    /\ state.threat_level = F0_2
    /\ determine_optimal_posture(state.threat_level) = "Silent"
    /\ state.current_posture = "Neutral"
    /\ state.last_posture_change = None

(***************************************************************************)
(* determine_optimal_posture as a function of the threat level.            *)
(* Specification SpecBand: two threat levels are drawn from the            *)
(* breakpoints, their neighbours among the f64 values and values inside    *)
(* the bands, and the function is applied to both.                         *)
(***************************************************************************)
\* the f64 values next to x, for x in [0.125, 1.0)
Below(x) == <<x[1], x[2], x[3] - Ulp(Mag(x))>>

Above(x) == <<x[1], x[2], x[3] + Ulp(Mag(x))>>

Breakpoints == {F0_2, F0_4, F0_6, F0_8}

BandSamples ==
    Breakpoints \cup {Below(b) : b \in Breakpoints} \cup {Above(b) : b \in Breakpoints}
        \cup {F0_0, F0_05, F0_1, F0_3, F0_30000000000000004, F0_5, F0_7, F0_75, F0_9, F1_0}

InitBand ==
    /\ state = NewState /\ threshold = DefaultThreshold /\ clock = 0
    /\ last = NoCall /\ MetricsNew /\ calls = 0
    /\ GateUnused /\ TasksUnused /\ EngineNew /\ PostureEngineNew
    /\ LurefieldUnused
    /\ handling \in {Some(<<t, u>>) : t \in BandSamples, u \in BandSamples}

\* self.determine_optimal_posture(threat_level), for each of the two levels
DetermineOptimalPosture ==
    /\ last.op # "determine_optimal_posture"
    /\ last' = Call("determine_optimal_posture", handling[1], state.current_posture,
                    state.threat_level, clock,
                    <<determine_optimal_posture(handling[1][1]),
                      determine_optimal_posture(handling[1][2])>>)
    /\ UNCHANGED <<state, threshold, clock, events, counters, calls, apart>>

NextBand == DetermineOptimalPosture

SpecBand == InitBand /\ [][NextBand]_vars

\* C25: the posture for a threat level t in [0, 1] is the one whose rank in
\* Neutral < Silent < Mimetic < Fulgurant < Unstable is the number of
\* breakpoints 0.2, 0.4, 0.6, 0.8 that are <= t (each band contains its lower
\* breakpoint and not its upper one), and a higher threat level never gives a
\* lower posture.
C25_BandsAreHalfOpen ==
    last.op = "determine_optimal_posture" =>
        LET t == last.arg[1]
            u == last.arg[2]
        IN  /\ Rank(last.ret[1]) = Cardinality({b \in Breakpoints : ~F64Lt(t, b)})
            /\ F64Lt(t, F0_2) => last.ret[1] = "Neutral"
            /\ (~F64Lt(t, F0_2) /\ F64Lt(t, F0_4)) => last.ret[1] = "Silent"
            /\ (~F64Lt(t, F0_4) /\ F64Lt(t, F0_6)) => last.ret[1] = "Mimetic"
            /\ (~F64Lt(t, F0_6) /\ F64Lt(t, F0_8)) => last.ret[1] = "Fulgurant"
            /\ ~F64Lt(t, F0_8) => last.ret[1] = "Unstable"
            /\ F64Lt(t, u) => Rank(last.ret[1]) <= Rank(last.ret[2])

\* the function applied at a breakpoint and at the f64 value just below it
C25_Witness ==
    /\ last.op = "determine_optimal_posture"
    /\ last.arg = <<Below(F0_6), F0_6>>
    /\ last.ret = <<"Mimetic", "Fulgurant">>

(***************************************************************************)
(* Claims about the gate as a function of all its arguments (SpecGate).    *)
(***************************************************************************)
\* the gate as the specification describes it
GateReference(thr, current, proposed, old_threat, new_threat) ==
    IF F64Gt(F64Abs(F64Sub(new_threat, old_threat)), thr) THEN TRUE
    ELSE IF Rank(proposed) > Rank(current)
         THEN F64Gt(new_threat, old_threat) /\ F64Gt(new_threat, F0_3)
    ELSE IF Rank(proposed) < Rank(current)
         THEN F64Lt(new_threat, old_threat) /\ F64Gt(F64Sub(old_threat, new_threat), F0_2)
    ELSE FALSE

BestThresholds == {F0_3, F0_6, F0_9}

BestSamples ==
    BestThresholds \cup {Below(b) : b \in BestThresholds}
        \cup {Above(b) : b \in BestThresholds} \cup {F0_0, F0_5, F0_7, F1_0}

InitBest ==
    /\ state = NewState /\ threshold = DefaultThreshold /\ clock = 0
    /\ last = NoCall /\ MetricsNew /\ calls = 0
    /\ GateUnused /\ TasksUnused /\ EngineNew /\ PostureEngineNew
    /\ LurefieldUnused
    /\ handling \in {Some([threat_level |-> t, events |-> slice]) :
                        t \in BestSamples, slice \in Slices}

\* self.determine_best_posture(threat_level, events).await
DetermineBestPosture ==
    /\ last.op # "determine_best_posture"
    /\ last' = Call("determine_best_posture", handling[1], state.current_posture,
                    state.threat_level, clock,
                    determine_best_posture(handling[1].threat_level, handling[1].events))
    /\ UNCHANGED <<state, threshold, clock, events, counters, calls, apart>>

NextBest == DetermineBestPosture

SpecBest == InitBest /\ [][NextBest]_vars

\* C27: the best posture is Fulgurant for a threat >= 0.9 with a SecurityAlert
\* in the slice, Unstable for a threat >= 0.9 without one, Mimetic for
\* 0.6 <= threat < 0.9, Neutral for 0.3 <= threat < 0.6 and Silent below 0.3.
C27_BestPostureByBand ==
    last.op = "determine_best_posture" =>
        LET t     == last.arg.threat_level
            alert == \E i \in 1..Len(last.arg.events) :
                         last.arg.events[i].event_type = "SecurityAlert"
        IN  /\ (~F64Lt(t, F0_9) /\ alert) => last.ret = "Fulgurant"
            /\ (~F64Lt(t, F0_9) /\ ~alert) => last.ret = "Unstable"
            /\ (~F64Lt(t, F0_6) /\ F64Lt(t, F0_9)) => last.ret = "Mimetic"
            /\ (~F64Lt(t, F0_3) /\ F64Lt(t, F0_6)) => last.ret = "Neutral"
            /\ F64Lt(t, F0_3) => last.ret = "Silent"

\* the function applied at 0.9 to a slice whose second event is a SecurityAlert
C27_Witness ==
    /\ last.op = "determine_best_posture"
    /\ last.arg.threat_level = F0_9
    /\ Len(last.arg.events) = 2
    /\ last.arg.events[1].event_type = "NetworkActivity"
    /\ last.arg.events[2].event_type = "SecurityAlert"
    /\ last.ret = "Fulgurant"

(***************************************************************************)
(* SpecEval: a fresh AdaptiveManager with the default threshold on which   *)
(* only evaluate_posture_change is called, while time passes.              *)
(***************************************************************************)
NextEval == Tick \/ EvaluatePostureChange

SpecEval == Init /\ [][NextEval]_vars

\* C29: in every state reached from the initial one by evaluate_posture_change
\* calls only, under the default threshold, current_posture is Neutral when
\* threat_level <= 0.3 and the posture of determine_optimal_posture for
\* threat_level when threat_level > 0.3.
C29_PostureFollowsThreat ==
    /\ threshold = DefaultThreshold
    /\ IF F64Gt(state.threat_level, F0_3)
       THEN state.current_posture = determine_optimal_posture(state.threat_level)
       ELSE state.current_posture = "Neutral"

\* a call has moved the posture from Mimetic to Fulgurant at the threat level
\* 0.4 + 0.2 = 0.6000000000000001
C29_Witness ==
    /\ last.op = "evaluate_posture_change"
    /\ last.old_posture = "Mimetic"
    /\ state.current_posture = "Fulgurant"
    /\ state.threat_level = F64Add(F0_4, F0_2)
    /\ F64Gt(state.threat_level, F0_6)

(***************************************************************************)
(* The hysteresis scenario of Medium-severity events (SpecEval).           *)
(***************************************************************************)
MediumKinds == {event_type \in EventType : severity(event_type) = "Medium"}

\* the threat level after n Medium-severity events on a state at 0.1
RECURSIVE MediumThreat(_)
MediumThreat(n) ==
    IF n = 0 THEN F0_1 ELSE F64Min(F64Add(MediumThreat(n - 1), F0_1), F1_0)

\* the threat levels of the scenario: 0.1, 0.2, 0.30000000000000004, 0.4, 0.5, 0.6,
\* 0.7, 0.7999999999999999, 0.8999999999999999, 0.9999999999999999, 1.0
MediumChain == {MediumThreat(n) : n \in 0..10}

\* the call that completed last evaluated a Medium-severity event of the scenario
MediumEvaluated ==
    /\ last.op = "evaluate_posture_change"
    /\ last.arg \in MediumKinds
    /\ last.old_threat \in MediumChain

MediumFrom(threat) == MediumEvaluated /\ last.old_threat = threat

\* C28 as stated: in the scenario (Neutral at 0.1, then Medium-severity events)
\* the posture changes only on an event whose new threat is in another band
\* than its old threat, with the escalation gate satisfied, and an event that
\* follows a posture change leaves the posture unchanged.
C28_HysteresisAsStated ==
    [][(EvaluateStep /\ MediumEvaluated') =>
          /\ last'.ret =>
                 /\ determine_optimal_posture(state'.threat_level) #
                        determine_optimal_posture(state.threat_level)
                 /\ F64Gt(state'.threat_level, state.threat_level)
                 /\ F64Gt(state'.threat_level, F0_3)
          /\ (MediumEvaluated /\ last.ret) => ~last'.ret]_vars

\* C28 amended: in the scenario an event changes the posture exactly when the
\* posture of its new threat differs from the current one and the new threat
\* is above the old one and above 0.3; so the event to 0.2 leaves Neutral, the
\* event to 0.1 + 0.1 + 0.1 = 0.30000000000000004 commits Silent without
\* entering another band, the event to 0.4 that follows it commits Mimetic,
\* the event to 0.5 changes nothing, the event to 0.6 commits Fulgurant and
\* the event to 0.7 changes nothing.
C28_HysteresisAmended ==
    /\ MediumEvaluated =>
           (last.ret <=>
               /\ determine_optimal_posture(state.threat_level) # last.old_posture
               /\ F64Gt(state.threat_level, last.old_threat)
               /\ F64Gt(state.threat_level, F0_3))
    /\ MediumFrom(F0_1) =>
           ~last.ret /\ state.threat_level = F0_2 /\ state.current_posture = "Neutral"
    /\ MediumFrom(F0_2) =>
           /\ last.ret /\ last.old_posture = "Neutral"
           /\ state.threat_level = F0_30000000000000004
           /\ state.current_posture = "Silent"
           /\ determine_optimal_posture(F0_2) = "Silent"
    /\ MediumFrom(F0_30000000000000004) =>
           last.ret /\ state.threat_level = F0_4 /\ state.current_posture = "Mimetic"
    /\ MediumFrom(F0_4) =>
           ~last.ret /\ state.threat_level = F0_5 /\ state.current_posture = "Mimetic"
    /\ MediumFrom(F0_5) =>
           last.ret /\ state.threat_level = F0_6 /\ state.current_posture = "Fulgurant"
    /\ MediumFrom(F0_6) =>
           ~last.ret /\ state.threat_level = F0_7 /\ state.current_posture = "Fulgurant"

\* the event to 0.4 has been evaluated right after the one that committed Silent
C28_Witness ==
    /\ MediumFrom(F0_30000000000000004)
    /\ last.old_posture = "Silent"
    /\ state.current_posture = "Mimetic"
    /\ state.last_posture_change = Some(last.at)

(***************************************************************************)
(* SpecRatchet: evaluate_posture_change under thresholds on both sides of  *)
(* 0.4, on states that force_posture may have produced; calls counts the   *)
(* force_posture calls.                                                    *)
(***************************************************************************)
\* inputs of set_threshold: 0.1, 0.4 and a value clamped to 1.0
RatchetThresholds == {F0_1, F0_4, F1_5}

RatchetSetThreshold ==
    \E t \in RatchetThresholds :
        /\ threshold' = set_threshold(t)
        /\ last' = Call("set_threshold", t, state.current_posture, state.threat_level, clock, TRUE)
        /\ UNCHANGED <<state, clock, events, counters, calls, apart>>

RatchetForcePosture ==
    \E posture \in Posture :
        /\ calls < MaxForced
        /\ calls' = calls + 1
        /\ state' = force_posture(state, posture, clock)
        /\ last' = Call("force_posture", posture, state.current_posture,
                        state.threat_level, clock, TRUE)
        /\ UNCHANGED <<threshold, clock, events, counters, apart>>

NextRatchet == Tick \/ EvaluatePostureChange \/ RatchetSetThreshold \/ RatchetForcePosture

SpecRatchet == Init /\ [][NextRatchet]_vars

\* C30: evaluate_posture_change never lowers threat_level; under a threshold
\* of at least 0.4 it never commits a posture below the current one, whatever
\* state force_posture has left; and as long as force_posture has not been
\* called, under any threshold, every posture it commits is above the one it
\* replaces, so no posture is entered again.
C30_EvaluateOnlyEscalates ==
    [][EvaluateStep =>
          /\ ~F64Lt(state'.threat_level, state.threat_level)
          /\ ~F64Lt(threshold, F0_4) =>
                 Rank(state'.current_posture) >= Rank(state.current_posture)
          /\ calls = 0 =>
                 /\ Rank(state'.current_posture) >= Rank(state.current_posture)
                 /\ last'.ret => Rank(state'.current_posture) > Rank(state.current_posture)]_vars

\* under the threshold 0.4, a High-severity event on a state forced to Unstable
\* at threat 0.0: Silent is proposed and refused
C30_Witness ==
    /\ last.op = "evaluate_posture_change"
    /\ calls = 1
    /\ threshold = F0_4
    /\ last.old_posture = "Unstable"
    /\ determine_optimal_posture(state.threat_level) = "Silent"
    /\ F64Gt(state.threat_level, last.old_threat)
    /\ ~last.ret
    /\ state.current_posture = "Unstable"

(***************************************************************************)
(* SpecLive: events of non-zero severity keep being evaluated under the    *)
(* default threshold, on a state that force_posture may have written       *)
(* (calls counts the force_posture calls).  Every caller of                *)
(* evaluate_posture_change gets the write guard in the end, so the         *)
(* evaluation is weakly fair.                                              *)
(***************************************************************************)
SevereKinds == {event_type \in EventType : severity(event_type) # "Info"}

\* the threat levels evaluate_posture_change can leave, from 0.0 on
RECURSIVE ThreatsFrom(_)
ThreatsFrom(seen) ==
    LET more == seen \cup {AdjustThreat([threat_level |-> t], sev).threat_level :
                               t \in seen, sev \in {"High", "Medium", "Low"}}
    IN  IF more = seen THEN seen ELSE ThreatsFrom(more)

ReachableThreats == ThreatsFrom({F0_0})

\* evaluate_posture_change reads current_posture and threat_level only: what
\* it does under the default threshold, for each posture, reachable threat
\* level and kind of event
Evaluated ==
    [current \in Posture, threat \in ReachableThreats, event_type \in SevereKinds |->
        evaluate_posture_change(
            [NewState EXCEPT !.current_posture = current, !.threat_level = threat],
            DefaultThreshold, event_type, 0)]

EvaluateSevere ==
    \E event_type \in SevereKinds :
        LET r == Evaluated[state.current_posture, state.threat_level, event_type]
        IN  /\ state' = [state EXCEPT
                             !.threat_level = r.state.threat_level,
                             !.current_posture = r.state.current_posture,
                             !.last_posture_change = IF r.ret THEN Some(clock) ELSE @]
            /\ last' = Call("evaluate_posture_change", event_type, state.current_posture,
                            state.threat_level, clock, r.ret)
            /\ UNCHANGED <<threshold, clock, events, counters, calls, apart>>

NextLive == Tick \/ EvaluateSevere \/ RatchetForcePosture

SpecLive == Init /\ [][NextLive]_vars /\ WF_vars(EvaluateSevere)

\* C31: after a force_posture, while events of non-zero severity keep being
\* evaluated, current_posture eventually is the posture of
\* determine_optimal_posture for threat_level; so a posture forced below
\* Unstable at threat_level 1.0 is raised back to Unstable.
C31_ForcedPostureConverges ==
    [](last.op = "force_posture" =>
          <>(state.current_posture = determine_optimal_posture(state.threat_level)))

(***************************************************************************)
(* SpecWindow: engines of every configuration of Configs on which only     *)
(* evaluate_events is called, while a subscriber drains the channel.       *)
(***************************************************************************)
NextWindow == EvaluateEvents \/ SendPostureEvent \/ SubscriberReceive

SpecWindow == InitPosture /\ [][NextWindow]_vars

NextFeed == HandleEvent \/ ChangePosture

SpecFeed == Init /\ [][NextFeed]_vars

\* what change_posture writes itself: the posture, under the write guard
PostureWritten(posture) == [state EXCEPT !.current_posture = posture]

\* C33: handle_event (register_event builds the Event and calls it) records
\* an event of every kind, and for a kind other than SecurityAlert leaves
\* threat_level, current_posture and last_posture_change as they were; the
\* PostureChange event change_posture registers is recorded and changes
\* nothing of the state but the posture change_posture wrote.
C33_OnlyAlertsFeedThreat ==
    [][ /\ (CallStep /\ last'.op = "handle_event") =>
              /\ \E source \in Sources :
                     events' = PushAndTrim(events,
                                   Event(clock, last'.arg, source, None))
              /\ counters' # counters
              /\ last'.arg # "SecurityAlert" => state' = state
        /\ (CallStep /\ last'.op = "change_posture") =>
              /\ state' = PostureWritten(last'.arg)
              /\ events' = PushAndTrim(events,
                     Event(clock, "PostureChange", "core",
                           Some([old_posture |-> state.current_posture,
                                 new_posture |-> last'.arg])))
      ]_vars

\* a NetworkActivity event handled after an alert had raised the threat
C33_Witness ==
    /\ last.op = "handle_event"
    /\ last.arg = "NetworkActivity"
    /\ state.threat_level = F0_2
    /\ state.threat_level = last.old_threat
    /\ Len(events) = 2
    /\ events[2].event_type = "NetworkActivity"


\* the calls of register_event one behaviour makes, and the kinds it submits
MaxIngest == 5

IngestKinds == {"SecurityAlert", "NetworkActivity", "PostureChange"}

\* register_event: the Event is built with Utc::now() and handed to handle_event
RegisterEvent ==
    \E event_type \in IngestKinds, source \in Sources :
        LET r == handle_event(state, threshold, events, counters,
                              Event(clock, event_type, source, None), clock)
        IN  /\ calls < MaxIngest
            /\ calls' = calls + 1
            /\ state' = r.state
            /\ events' = r.events
            /\ counters' = r.counters
            /\ last' = Call("register_event", event_type, state.current_posture,
                            state.threat_level, clock, TRUE)
            /\ UNCHANGED <<threshold, clock, apart>>

NextIngest == Tick \/ RegisterEvent

SpecIngest == Init /\ [][NextIngest]_vars

\* the postures the ingest path commits one after another
AutomaticSequence ==
    {<<"Neutral", "Mimetic">>, <<"Mimetic", "Fulgurant">>, <<"Fulgurant", "Unstable">>}

\* C34: with events submitted through register_event / handle_event only,
\* under the default threshold, the posture is never Silent, and a call that
\* changes it moves it one step along Neutral, Mimetic, Fulgurant, Unstable.
C34_IngestSkipsSilent ==
    /\ state.current_posture # "Silent"
    /\ last.op = "register_event" =>
           \/ state.current_posture = last.old_posture
           \/ <<last.old_posture, state.current_posture>> \in AutomaticSequence

\* the fourth alert has moved the posture from Fulgurant to Unstable
C34_Witness ==
    /\ last.op = "register_event"
    /\ last.arg = "SecurityAlert"
    /\ last.old_posture = "Fulgurant"
    /\ state.current_posture = "Unstable"
    /\ counters[<<"event_count_", "SecurityAlert">>] = 4


\* C35: a step that changes current_posture of the shared state sets
\* last_posture_change to the time of the step, whichever operation made it
\* (evaluate_posture_change through handle_event, force_posture,
\* change_posture).
C35_PostureChangeIsStamped ==
    [][ state'.current_posture # state.current_posture =>
            state'.last_posture_change = Some(clock) ]_vars


(***************************************************************************)
(* ChameleonCore::change_posture called by NumTasks tasks at once: the     *)
(* write guard is dropped before register_event records the change.        *)
(***************************************************************************)
ChangeAt(pc, posture, old_posture) ==
    [pc |-> pc, posture |-> posture, old_posture |-> old_posture]

InitChange ==
    /\ CoreNew /\ GateUnused /\ EngineNew /\ PostureEngineNew
    /\ lock = NoTask
    /\ tasks \in [Tasks -> {ChangeAt("write", posture, "Neutral") : posture \in Posture}]

\* let mut state = self.state.write().await;
ChangeLock(t) ==
    /\ tasks[t].pc = "write"
    /\ write_available(lock)
    /\ lock' = t
    /\ tasks' = [tasks EXCEPT ![t].pc = "guarded"]
    /\ UNCHANGED <<coreVars, gateVars, dispatchVars, mockVars, peVars, handleVars, lureVars>>

\* old_posture = state.current_posture; state.current_posture = posture; drop(state)
ChangeAssign(t) ==
    /\ tasks[t].pc = "guarded"
    /\ state' = [state EXCEPT !.current_posture = tasks[t].posture]
    /\ lock' = NoTask
    /\ tasks' = [tasks EXCEPT ![t].pc = "register",
                              ![t].old_posture = state.current_posture]
    /\ UNCHANGED <<threshold, clock, last, events, counters, calls, gateVars,
                   dispatchVars, mockVars, peVars, handleVars, lureVars>>

\* self.register_event(EventType::PostureChange, "core", Some(json!({..}))).await?
ChangeRegister(t) ==
    /\ tasks[t].pc = "register"
    /\ LET r == handle_event(state, threshold, events, counters,
                             Event(clock, "PostureChange", "core",
                                   Some([old_posture |-> tasks[t].old_posture,
                                         new_posture |-> tasks[t].posture])),
                             clock)
       IN  /\ state' = r.state
           /\ events' = r.events
           /\ counters' = r.counters
    /\ tasks' = [tasks EXCEPT ![t].pc = "done"]
    /\ UNCHANGED <<threshold, clock, last, calls, lock, gateVars,
                   dispatchVars, mockVars, peVars, handleVars, lureVars>>

NextChange == \E t \in Tasks : ChangeLock(t) \/ ChangeAssign(t) \/ ChangeRegister(t)

SpecChange == InitChange /\ [][NextChange]_vars

\* C36: once every concurrent change_posture has returned, the PostureChange
\* event recorded last names current_posture as its new_posture, and every
\* recorded event's old_posture is the new_posture of the event before it.
C36_HistoryFollowsPosture ==
    (\A t \in Tasks : tasks[t].pc = "done") =>
        /\ events # <<>>
        /\ events[Len(events)].data[1].new_posture = state.current_posture
        /\ \A i \in 2..Len(events) :
               events[i].data[1].old_posture = events[i - 1].data[1].new_posture


(***************************************************************************)
(* PostureEngine::set_posture called by NumTasks tasks at once:            *)
(* current_posture and posture_history are two locks, taken in turn.       *)
(***************************************************************************)
SetAt(pc, posture, tag) == [pc |-> pc, posture |-> posture, tag |-> tag]

InitSet ==
    /\ CoreNew /\ GateUnused /\ EngineNew
    /\ lock = NoTask
    /\ pe \in {PostureEngine_new(config) : config \in Configs}
    /\ tasks \in [Tasks -> {SetAt("check", posture, "") : posture \in Posture}]

\* if !self.config.postures.contains(&posture) { return Err(InvalidPosture(..)) }
SetCheck(t) ==
    /\ tasks[t].pc = "check"
    /\ tasks' = [tasks EXCEPT ![t] =
                    IF tasks[t].posture \in pe.config.postures
                    THEN SetAt("current", @.posture, "")
                    ELSE SetAt("done", @.posture, "Err")]
    /\ UNCHANGED <<coreVars, gateVars, lock, dispatchVars, mockVars, peVars, handleVars, lureVars>>

\* { let mut current = self.current_posture.write().await; *current = posture.clone(); }
SetCurrent(t) ==
    /\ tasks[t].pc = "current"
    /\ pe' = [pe EXCEPT !.current_posture = tasks[t].posture]
    /\ tasks' = [tasks EXCEPT ![t].pc = "history"]
    /\ UNCHANGED <<coreVars, gateVars, lock, dispatchVars, mockVars, handleVars, lureVars>>

\* { let mut history = self.posture_history.write().await; history.push((posture, now)); }
SetHistory(t) ==
    /\ tasks[t].pc = "history"
    /\ pe' = [pe EXCEPT !.posture_history = Append(@, <<tasks[t].posture, clock>>)]
    /\ tasks' = [tasks EXCEPT ![t].pc = "send"]
    /\ UNCHANGED <<coreVars, gateVars, lock, dispatchVars, mockVars, handleVars, lureVars>>

\* self.event_sender.send(event).await, its error logged; Ok(())
SetSend(t) ==
    /\ tasks[t].pc = "send"
    /\ LET a == announce(pe.event_sender,
                         Event(clock, "PostureChange", "posture_engine",
                               Some([posture   |-> to_str(tasks[t].posture),
                                     timestamp |-> clock])))
       IN  /\ a.tag # "Pending"
           /\ pe' = [pe EXCEPT !.event_sender = a.channel]
    /\ tasks' = [tasks EXCEPT ![t].pc = "done", ![t].tag = "Ok"]
    /\ UNCHANGED <<coreVars, gateVars, lock, dispatchVars, mockVars, handleVars, lureVars>>

NextSet ==
    \/ \E t \in Tasks : SetCheck(t) \/ SetCurrent(t) \/ SetHistory(t) \/ SetSend(t)
    \/ SubscriberReceive

SpecSet == InitSet /\ [][NextSet]_vars

\* no set_posture between its first write and its return
Quiescent == \A t \in Tasks : tasks[t].pc \in {"check", "done"}

\* C37: in every quiescent state the last entry of posture_history names
\* current_posture, and posture_history holds one entry for each set_posture
\* that returned Ok.
C37_HistoryEndsAtCurrent ==
    Quiescent =>
        /\ Len(pe.posture_history) = Cardinality({t \in Tasks : tasks[t].tag = "Ok"})
        /\ pe.posture_history # <<>> =>
               pe.posture_history[Len(pe.posture_history)][1] = pe.current_posture


(***************************************************************************)
(* Lurefield: deploy_honeypot and stop called by NumTasks tasks at once.   *)
(* The honeypot map is behind a tokio RwLock, whose policy is fair         *)
(* (write-preferring): the tasks awaiting the lock are served first-in,    *)
(* first-out, and no read guard is given out while a writer is at the head *)
(* of the queue.                                                           *)
(***************************************************************************)
\* the calls one behaviour makes on the Lurefield
MaxLureCalls == 3

\* HoneypotType::to_str of the types deployed
HoneypotTypes == {"ssh", "http"}

\* LurefieldConfig.max_honeypots
MaxHoneypotsInputs == {1, 2}

Lurefield_new(max_honeypots) ==
    [ max_honeypots |-> max_honeypots,
      honeypots     |-> EmptyMap,                \* id -> Honeypot.active
      readers       |-> [t \in Tasks |-> 0],     \* read guards held, per task
      writer        |-> NoTask,                  \* the task holding the write guard
      waiting       |-> <<>>,                    \* the queue of the tasks awaiting the lock
      event_sender  |-> NewChannel ]

LureAt(op, pc, honeypot_type, id, pending, ret) ==
    [op |-> op, pc |-> pc, honeypot_type |-> honeypot_type, id |-> id,
     pending |-> pending, ret |-> ret]

InitLure ==
    /\ state = NewState /\ threshold = DefaultThreshold /\ clock = 0
    /\ last = NoCall /\ MetricsNew /\ calls = 0 /\ handling = None
    /\ GateUnused /\ EngineNew /\ PostureEngineNew
    /\ lock = NoTask
    /\ tasks = [t \in Tasks |-> LureAt("", "idle", "", None, {}, "")]
    /\ lure \in {Lurefield_new(max_honeypots) : max_honeypots \in MaxHoneypotsInputs}

LureFrame ==
    UNCHANGED <<state, threshold, clock, last, events, counters, gateVars, lock,
                dispatchVars, mockVars, peVars, handleVars>>

\* lock.read().await / lock.write().await: the task joins the queue
Await(l, t, mode) == [l EXCEPT !.waiting = Append(@, [task |-> t, mode |-> mode])]

\* the guard the head of the queue asks for can be given out
Available(l) ==
    /\ l.waiting # <<>>
    /\ l.writer = NoTask
    /\ Head(l.waiting).mode = "write" => \A u \in Tasks : l.readers[u] = 0

Granted(l) ==
    LET head == Head(l.waiting)
    IN  IF head.mode = "write"
        THEN [l EXCEPT !.waiting = Tail(@), !.writer = head.task]
        ELSE [l EXCEPT !.waiting = Tail(@), !.readers[head.task] = @ + 1]

DropRead(l, t) == [l EXCEPT !.readers[t] = @ - 1]

\* where a task goes on once it has its guard
AfterGrant(pc) ==
    CASE pc = "check_wait" -> "check"
      [] pc = "store_wait" -> "store"
      [] pc = "iter_wait"  -> "iter"
      [] pc = "inner_wait" -> "mark"

\* deploy_honeypot is called: let honeypots = self.honeypots.read().await
CallDeploy(t) ==
    \E honeypot_type \in HoneypotTypes :
        /\ tasks[t].pc \in {"idle", "done"}
        /\ calls < MaxLureCalls
        /\ calls' = calls + 1
        /\ tasks' = [tasks EXCEPT ![t] =
                        LureAt("deploy_honeypot", "check_wait", honeypot_type, None, {}, "")]
        /\ lure' = Await(lure, t, "read")
        /\ LureFrame

\* stop is called: let honeypots = self.honeypots.read().await
CallStop(t) ==
    /\ tasks[t].pc \in {"idle", "done"}
    /\ calls < MaxLureCalls
    /\ calls' = calls + 1
    /\ tasks' = [tasks EXCEPT ![t] = LureAt("stop", "iter_wait", "", None, {}, "")]
    /\ lure' = Await(lure, t, "read")
    /\ LureFrame

\* the task at the head of the queue gets its guard; stop starts its loop
\* over the entries the map has under the guard
Grant(t) ==
    /\ Available(lure)
    /\ Head(lure.waiting).task = t
    /\ lure' = Granted(lure)
    /\ tasks' = [tasks EXCEPT ![t].pc = AfterGrant(@),
                              ![t].pending = IF tasks[t].pc = "iter_wait"
                                             THEN DOMAIN lure.honeypots ELSE @]
    /\ UNCHANGED calls /\ LureFrame

\* if honeypots.len() >= max_honeypots { return Err(MaxHoneypotsReached) } drop(honeypots)
DeployCheck(t) ==
    /\ tasks[t].pc = "check"
    /\ lure' = DropRead(lure, t)
    /\ tasks' = [tasks EXCEPT ![t] =
                    IF Cardinality(DOMAIN lure.honeypots) >= lure.max_honeypots
                    THEN [@ EXCEPT !.pc = "done", !.ret = "MaxHoneypotsReached"]
                    ELSE [@ EXCEPT !.pc = "build"]]
    /\ UNCHANGED calls /\ LureFrame

\* id = format!("hp-{}-{}", type, now); ..; self.honeypots.write().await
DeployAwaitWrite(t) ==
    /\ tasks[t].pc = "build"
    /\ tasks' = [tasks EXCEPT ![t].pc = "store_wait",
                              ![t].id = Some(<<"hp", tasks[t].honeypot_type, clock>>)]
    /\ lure' = Await(lure, t, "write")
    /\ UNCHANGED calls /\ LureFrame

\* honeypots.insert(id.clone(), ..), and the write guard is dropped
DeployStore(t) ==
    /\ tasks[t].pc = "store"
    /\ lure' = [lure EXCEPT
                  !.honeypots = [id \in DOMAIN @ \cup {tasks[t].id[1]} |-> TRUE],
                  !.writer = NoTask]
    /\ tasks' = [tasks EXCEPT ![t].pc = "send"]
    /\ UNCHANGED calls /\ LureFrame

\* self.event_sender.send(event).await; Ok(id), the id being the task's
DeploySend(t) ==
    /\ tasks[t].pc = "send"
    /\ LET a == announce(lure.event_sender,
                         Event(clock, "HoneypotActivity", "lurefield",
                               Some([action |-> "deploy", honeypot_id |-> tasks[t].id[1]])))
       IN  /\ a.tag # "Pending"
           /\ lure' = [lure EXCEPT !.event_sender = a.channel]
    /\ tasks' = [tasks EXCEPT ![t].pc = "done", ![t].ret = "Ok"]
    /\ UNCHANGED calls /\ LureFrame

\* for (id, honeypot) in honeypots.iter() { self.stop_honeypot(id).await .. } Ok(())
\* stop_honeypot begins with self.honeypots.read().await
StopNext(t) ==
    /\ tasks[t].pc = "iter"
    /\ IF tasks[t].pending = {}
       THEN /\ lure' = DropRead(lure, t)
            /\ tasks' = [tasks EXCEPT ![t].pc = "done", ![t].ret = "Ok"]
       ELSE \E id \in tasks[t].pending :
                /\ lure' = Await(lure, t, "read")
                /\ tasks' = [tasks EXCEPT ![t].pc = "inner_wait", ![t].id = Some(id)]
    /\ UNCHANGED calls /\ LureFrame

\* honeypots.get(id); honeypot.active = false under the honeypot's own lock
StopMark(t) ==
    /\ tasks[t].pc = "mark"
    /\ lure' = [lure EXCEPT !.honeypots[tasks[t].id[1]] = FALSE]
    /\ tasks' = [tasks EXCEPT ![t].pc = "inner_send"]
    /\ UNCHANGED calls /\ LureFrame

\* self.event_sender.send(event).await; Ok(()): stop_honeypot's guard is dropped
StopSend(t) ==
    /\ tasks[t].pc = "inner_send"
    /\ LET a == announce(lure.event_sender,
                         Event(clock, "HoneypotActivity", "lurefield",
                               Some([action |-> "stop", honeypot_id |-> tasks[t].id[1]])))
       IN  /\ a.tag # "Pending"
           /\ lure' = [DropRead(lure, t) EXCEPT !.event_sender = a.channel]
    /\ tasks' = [tasks EXCEPT ![t].pc = "iter", ![t].pending = @ \ {tasks[t].id[1]}]
    /\ UNCHANGED calls /\ LureFrame

\* the receiver of the event channel takes one event
LureReceive ==
    /\ Len(lure.event_sender.queue) > 0
    /\ lure' = [lure EXCEPT !.event_sender.queue = Tail(@)]
    /\ UNCHANGED <<calls, tasks>> /\ LureFrame

LureTick ==
    /\ clock < MaxClock
    /\ clock' = clock + 1
    /\ UNCHANGED <<state, threshold, last, events, counters, calls, gateVars, concVars,
                   dispatchVars, mockVars, peVars, handleVars, lureVars>>

\* a call in progress goes on
Proceed(t) ==
    \/ Grant(t)
    \/ DeployCheck(t) \/ DeployAwaitWrite(t) \/ DeployStore(t) \/ DeploySend(t)
    \/ StopNext(t) \/ StopMark(t) \/ StopSend(t)

NextLure ==
    \/ LureTick
    \/ LureReceive
    \/ \E t \in Tasks : CallDeploy(t) \/ CallStop(t) \/ Proceed(t)

SpecLure == InitLure /\ [][NextLure]_vars

\* C38: the honeypot map never holds more than max_honeypots entries, however
\* the concurrent deploy_honeypot calls interleave.
C38_CapNeverExceeded ==
    Cardinality(DOMAIN lure.honeypots) <= lure.max_honeypots

\* every task that can take a step takes it, and the channel is drained
SpecLureFair ==
    /\ InitLure /\ [][NextLure]_vars
    /\ \A t \in Tasks : WF_vars(Proceed(t))
    /\ WF_vars(LureReceive)

\* C39: every call of stop returns, also when deploy_honeypot runs beside it;
\* the read guard stop_honeypot asks for while stop holds its own is
\* eventually given out.
C39_StopTerminates ==
    \A t \in Tasks :
        (tasks[t].op = "stop" /\ tasks[t].pc # "done")
            ~> (tasks[t].op = "stop" /\ tasks[t].pc = "done")


====
